---- MODULE Spec2Model ----
(***************************************************************************)
(* Pairing / authentication / session state machine of the FOSS-Deck host *)
(* (pc-server/src/server): the per-source rate limiter, the allow-list of *)
(* authorized devices, the shared PairingState behind one mutex, the      *)
(* per-connection loop of handle_ws and the idle watchdog.                *)
(*                                                                         *)
(* Time is a global clock `now` in whole seconds; Instant::now() and       *)
(* now_unix() both read it.  Every critical section (one lock()..drop of  *)
(* the PairingState mutex) is one atomic step.                            *)
(***************************************************************************)
EXTENDS Integers, Sequences, FiniteSets, TLC

\* ---------------------------------------------------------------- bounds
\* Seconds the clock advances per Tick step.
TickStep == 30
\* Seconds of service time explored after run_ws_server starts.
Horizon == 60
\* Number of tokens generate_token() may hand out in one behaviour.
MaxTokens == 2
\* Seconds of service time explored under the timely watchdog.
TimelyHorizon == 20
\* The clock of the lockout specification advances by FineStep, FineHorizon at most.
FineStep == 15
FineHorizon == 45
\* Failed comparisons are counted up to MaxCompared.
MaxCompared == 6
\* A clock whose step is longer than the rate-limit window.
SlowStep == 45
SlowHorizon == 90

\* ------------------------------------------------------ program constants
RL_MAX_ATTEMPTS == 5
RL_WINDOW == 30
RL_LOCKOUT == 30
PAIRING_TTL == 300
PAIRING_IDLE_TIMEOUT == 10
WATCHDOG_PERIOD == 5
CODE_MODULUS == 1000000

\* ------------------------------------------------------------ small sets
Conns == {"c1", "c2"}
Devices == {"A", "B"}
IPs == {"ip1", "ip2"}

\* Option<T>: None is the empty sequence, Some(x) the one-element sequence.
None == << >>
Some(x) == << x >>
IsSome(o) == o /= << >>
IsNone(o) == o = << >>
Unwrap(o) == o[1]

\* The remote address warp hands to handle_ws: Some(ip), or None when unknown.
Remotes == {Some(ip) : ip \in IPs} \cup {None}

\* Tokens are numbered in order of issue; 0 is a token that is never issued.
Tokens == 1..MaxTokens

\* ------------------------------------------------------- auth_store.rs
\* Variant: the credential is kept as it is.
sha256_hex_plain(s) == s

\* A one-way digest: injective, and never equal to any token.
sha256_hex(s) == -(s + 1)

now_unix(t) == t

EmptyStore == [d \in Devices |-> None]

AuthorizedDevice(name, token_hash, added_at, seen) ==
    [name |-> name, token_hash |-> token_hash, added_at |-> added_at, last_seen |-> seen]

\* serde_json::to_string_pretty(store): the text of the file, one member of the
\* "devices" object per listed device (name: null for None).
to_string_pretty(store) ==
    {[id |-> d, name |-> Unwrap(store[d]).name, token_hash |-> Unwrap(store[d]).token_hash,
      added_at |-> Unwrap(store[d]).added_at, last_seen |-> Unwrap(store[d]).last_seen] :
        d \in {x \in Devices : IsSome(store[x])}}

\* Variant: the parser does not read last_seen and takes added_at for it.
from_str_without_last_seen(text) ==
    [d \in Devices |->
        IF \E m \in text : m.id = d
        THEN LET m == CHOOSE x \in text : x.id = d
             IN  Some(AuthorizedDevice(m.name, m.token_hash, m.added_at, m.added_at))
        ELSE None]

\* serde_json::from_str::<AuthorizedStore>(text) of a complete text.
from_str(text) ==
    [d \in Devices |->
        IF \E m \in text : m.id = d
        THEN LET m == CHOOSE x \in text : x.id = d
             IN  Some(AuthorizedDevice(m.name, m.token_hash, m.added_at, m.last_seen))
        ELSE None]

\* Variant: a file that does not parse is taken for the text it was meant to be.
load_store_ignoring_errors(file, partial) ==
    IF IsSome(file) THEN from_str(Unwrap(file)) ELSE EmptyStore

\* load_store: a missing file, or one that does not parse (`partial`: it holds
\* only the beginning of a text), gives the default (empty) store.
load_store(file, partial) ==
    IF IsSome(file) /\ ~partial THEN from_str(Unwrap(file)) ELSE EmptyStore

\* ------------------------------------------------------- rate_limit.rs
RateLimitEntry_new(t) == [window_start |-> t, attempts |-> 0, lockout_until |-> None]

\* Variant: the comparison with the deadline is reversed.
is_locked_reversed(e, t) ==
    IF IsSome(e.lockout_until) THEN t > Unwrap(e.lockout_until) ELSE FALSE

\* Variant: the source is still locked at the instant the lockout ends.
is_locked_inclusive(e, t) ==
    IF IsSome(e.lockout_until) THEN t <= Unwrap(e.lockout_until) ELSE FALSE

is_locked(e, t) ==
    IF IsSome(e.lockout_until) THEN t < Unwrap(e.lockout_until) ELSE FALSE

remaining_lockout_secs(e, t) ==
    IF IsSome(e.lockout_until)
    THEN IF t >= Unwrap(e.lockout_until) THEN 0 ELSE Unwrap(e.lockout_until) - t
    ELSE 0

\* Variant: the lockout starts when the limit is exceeded, not when it is reached.
register_failure_late(e, t) ==
    LET r == IF t - e.window_start > RL_WINDOW
             THEN [e EXCEPT !.window_start = t, !.attempts = 0]
             ELSE e
        a == r.attempts + 1
    IN  [r EXCEPT !.attempts = a,
                  !.lockout_until = IF a > RL_MAX_ATTEMPTS
                                    THEN Some(t + RL_LOCKOUT)
                                    ELSE r.lockout_until]

register_failure(e, t) ==
    LET r == IF t - e.window_start > RL_WINDOW
             THEN [e EXCEPT !.window_start = t, !.attempts = 0]
             ELSE e
        a == r.attempts + 1
    IN  [r EXCEPT !.attempts = a,
                  !.lockout_until = IF a >= RL_MAX_ATTEMPTS
                                    THEN Some(t + RL_LOCKOUT)
                                    ELSE r.lockout_until]

register_success(e, t) == [window_start |-> t, attempts |-> 0, lockout_until |-> None]

\* ---------------------------------------------------------- pairing.rs
\* generate_pairing_code: the six decimal digits of the clock reading.
generate_pairing_code(t) == now_unix(t) % CODE_MODULUS

PairingState_new(c, t, file, partial) ==
    [code |-> c, created_at |-> t,
     active_device_id |-> None, active_client_ip |-> None, last_seen |-> None,
     store |-> load_store(file, partial),
     rate_limit |-> [ip \in IPs |-> None]]

\* Variant: the code counts as expired from the instant it reaches its TTL.
is_expired_at_ttl(s, t) == t - s.created_at >= PAIRING_TTL

is_expired(s, t) == t - s.created_at > PAIRING_TTL

\* mark_seen: also sets the stored last_seen of the active device, if it has an entry.
mark_seen(s, t) ==
    LET s1 == [s EXCEPT !.last_seen = Some(t)]
    IN  IF IsSome(s1.active_device_id) /\ IsSome(s1.store[Unwrap(s1.active_device_id)])
        THEN LET id == Unwrap(s1.active_device_id)
                 dev == Unwrap(s1.store[id])
             IN  [s1 EXCEPT !.store[id] = Some([dev EXCEPT !.last_seen = now_unix(t)])]
        ELSE s1

\* TRUE when mark_seen reaches its save_store call.
mark_seen_saves(s) ==
    IsSome(s.active_device_id) /\ IsSome(s.store[Unwrap(s.active_device_id)])

\* Variant: idleness is measured against the code's TTL.
is_idle_too_long_ttl(s, t) ==
    IF IsSome(s.active_device_id) /\ IsSome(s.last_seen)
    THEN t - Unwrap(s.last_seen) > PAIRING_TTL
    ELSE FALSE

\* Variant: a session is idle once a watchdog period has passed without a
\* heartbeat.
is_idle_too_long_after_period(s, t) ==
    IF IsSome(s.active_device_id) /\ IsSome(s.last_seen)
    THEN t - Unwrap(s.last_seen) > WATCHDOG_PERIOD
    ELSE FALSE

is_idle_too_long(s, t) ==
    IF IsSome(s.active_device_id) /\ IsSome(s.last_seen)
    THEN t - Unwrap(s.last_seen) > PAIRING_IDLE_TIMEOUT
    ELSE FALSE

clear_active(s) ==
    [s EXCEPT !.active_device_id = None, !.active_client_ip = None, !.last_seen = None]

authorized_count(s) == Cardinality({d \in Devices : IsSome(s.store[d])})

\* Variant: revoking a device removes its entry and leaves the session alone.
revoke_device_keeps_session(s, device_id) ==
    [s EXCEPT !.store[device_id] = None]

\* Variant: revoking any device ends the active session.
revoke_device_ends_session(s, device_id) ==
    clear_active([s EXCEPT !.store[device_id] = None])

revoke_device(s, device_id) ==
    LET s1 == [s EXCEPT !.store[device_id] = None]
    IN  IF s1.active_device_id = Some(device_id) THEN clear_active(s1) ELSE s1

\* Variant: a listed device is authorized whatever token it presents.
is_authorized_if_listed(s, device_id, token) == IsSome(s.store[device_id])

is_authorized(s, device_id, token) ==
    IF IsSome(s.store[device_id])
    THEN Unwrap(s.store[device_id]).token_hash = sha256_hex(token)
    ELSE FALSE

\* Variant: an entry that exists is kept; only a new device is inserted.
upsert_authorized_if_absent(s, device_id, token_hash, device_name, t) ==
    IF IsSome(s.store[device_id]) THEN s
    ELSE [s EXCEPT !.store[device_id] =
             Some(AuthorizedDevice(device_name, token_hash, now_unix(t), now_unix(t)))]

upsert_authorized(s, device_id, token_hash, device_name, t) ==
    [s EXCEPT !.store[device_id] =
        Some(AuthorizedDevice(device_name, token_hash, now_unix(t), now_unix(t)))]

\* Variant: looking up the entry of a locked source restarts its lockout.
rl_entry_restarts_lockout(s, ip, t) ==
    IF IsSome(s.rate_limit[ip])
    THEN IF is_locked(Unwrap(s.rate_limit[ip]), t)
         THEN [s EXCEPT !.rate_limit[ip] =
                  Some([Unwrap(s.rate_limit[ip]) EXCEPT !.lockout_until = Some(t + RL_LOCKOUT)])]
         ELSE s
    ELSE [s EXCEPT !.rate_limit[ip] = Some(RateLimitEntry_new(t))]

\* entry(ip).or_insert_with(RateLimitEntry::new)
rl_entry(s, ip, t) ==
    IF IsSome(s.rate_limit[ip]) THEN s
    ELSE [s EXCEPT !.rate_limit[ip] = Some(RateLimitEntry_new(t))]

\* rl_is_locked returns Option<u64>; the entry it creates stays in the map.
rl_is_locked(s, ip, t) ==
    LET e == Unwrap(rl_entry(s, ip, t).rate_limit[ip])
    IN  IF is_locked(e, t) THEN Some(remaining_lockout_secs(e, t)) ELSE None

rl_register_success(s, ip, t) ==
    LET s1 == rl_entry(s, ip, t)
    IN  [s1 EXCEPT !.rate_limit[ip] = Some(register_success(Unwrap(s1.rate_limit[ip]), t))]

\* Variant: a failure is counted against every source that has an entry.
rl_register_failure_shared(s, ip, t) ==
    LET s1 == rl_entry(s, ip, t)
    IN  [s1 EXCEPT !.rate_limit =
            [i \in IPs |-> IF IsSome(s1.rate_limit[i])
                           THEN Some(register_failure(Unwrap(s1.rate_limit[i]), t))
                           ELSE None]]

rl_register_failure(s, ip, t) ==
    LET s1 == rl_entry(s, ip, t)
    IN  [s1 EXCEPT !.rate_limit[ip] = Some(register_failure(Unwrap(s1.rate_limit[ip]), t))]

\* ------------------------------------------------------------- state
VARIABLES
    now,         \* the clock, in seconds
    started_at,  \* the instant run_ws_server was called
    wd_wake,     \* the instant the watchdog's sleep ends
    st,          \* the PairingState behind Arc<Mutex<..>>
    disk,        \* content of the allow-list file: None while it does not exist
    conn,        \* per connection: handle_ws's locals and its position in the loop
    issued,      \* number of tokens generate_token has returned
    rl_spec,     \* history: per source, the window and the count of section 4.1's RateLimiter
    token_out,   \* history: per token, the outbound messages that carried it
    lost,        \* history: per connection, why and how long ago its device lost the session
    cancelled,   \* the CancellationToken of run_ws_server
    closing,     \* history: per connection, the frames sent when its loop was cancelled
    outbound,    \* history: per connection, the hellos sent and the first frame sent
    torn,        \* the allow-list file holds a partial write
    unsaved,     \* history: the latest save of the allow-list failed
    wd_pc,       \* the watchdog task's position in its loop
    cancelled_at, \* history: the instant of the shutdown signal
    compared,    \* history: per source, the failed comparisons since its latest lockout began
    lock         \* the Mutex around the PairingState: its holder and the tasks blocked in lock()

vars == << now, started_at, wd_wake, st, disk, conn, issued, rl_spec, token_out, lost,
           cancelled, closing,
           outbound, torn, unsaved, wd_pc, cancelled_at, compared, lock >>

\* ------------------------------------------------------------- the lock
\* The tasks that take the pairing lock: the connection tasks, the watchdog, and
\* the host's window.
Tasks == Conns \cup {"watchdog", "gui"}

\* The lock is free and no task waits for it.
Unlocked == [holder |-> "free", waiting |-> {}]

\* Each critical section is taken as one step: the lock is not a step of its own.
Unmodelled == [holder |-> "off", waiting |-> {}]

\* Task k is inside a critical section: it holds the lock.
InSection(k) == lock.holder \in {"off", k}

\* Task k is outside its critical sections: it neither holds the lock nor is
\* blocked in lock().
Outside(k) == lock.holder /= k /\ k \notin lock.waiting

\* Variant: the guard is kept after the block that took it.
Released_never == lock

\* The guard is dropped at the end of the block that took it.
Released == IF lock.holder = "off" THEN lock ELSE [lock EXCEPT !.holder = "free"]

\* --------------------------------------------------------- commands.rs
AuthMsg(device_id, token) == [cmd |-> "auth", code |-> 0, device_id |-> device_id, token |-> token]
PairMsg(code, device_id) == [cmd |-> "pair", code |-> code, device_id |-> device_id, token |-> 0]

Reply(type, reason) == [type |-> type, reason |-> reason, token |-> None, retry_after_secs |-> 0]
NoReply == Reply("none", "")
RateLimited(reason, rem) == [Reply("rate_limited", reason) EXCEPT !.retry_after_secs = rem]
PairingOk(token) == [Reply("pairing_ok", "") EXCEPT !.token = Some(token)]

ClosedConn ==
    [pc |-> "closed", remote_ip |-> None, authenticated |-> FALSE,
     authed_device_id |-> None, cmd |-> "none", reply |-> NoReply, hello |-> None]

\* Nothing has been sent on the connection; the hello has been sent.
NoOutbound == [hellos |-> 0, first |-> ""]
HelloSent == [hellos |-> 1, first |-> "hello"]

NotLost == [why |-> "no", stage |-> 0]

Min(a, b) == IF a <= b THEN a ELSE b

\* --------------------------------------------------------------- ws.rs
\* Variant: an active session is kept; only a free session is taken.
set_active_if_free(s, device_id, ip) ==
    IF IsSome(s.active_device_id) THEN s
    ELSE [s EXCEPT !.active_device_id = Some(device_id), !.active_client_ip = Some(ip)]

\* st.active_device_id = Some(device_id); st.active_client_ip = Some(ip);
set_active(s, device_id, ip) ==
    [s EXCEPT !.active_device_id = Some(device_id), !.active_client_ip = Some(ip)]

\* The Auth arm of handle_ws: one critical section.  `cn` is the connection's
\* record; the result carries the new PairingState, the new locals and the reply.
\* Variant: a failed auth leaves the connection's authentication as it was.
AuthArm_failure_keeps_authentication(s, cn, m, t) ==
    IF IsNone(cn.remote_ip)
    THEN [st |-> s, authenticated |-> cn.authenticated, authed_device_id |-> cn.authed_device_id,
          reply |-> Reply("auth_error", "no_remote_ip"), saved |-> FALSE, outcome |-> "no_ip"]
    ELSE LET ip == Unwrap(cn.remote_ip)
             rem == rl_is_locked(s, ip, t)
             s0 == rl_entry(s, ip, t)
         IN  IF IsSome(rem)
             THEN [st |-> s0, authenticated |-> cn.authenticated,
                   authed_device_id |-> cn.authed_device_id,
                   reply |-> RateLimited("auth", Unwrap(rem)), saved |-> FALSE,
                   outcome |-> "locked"]
             ELSE IF is_authorized(s0, m.device_id, m.token)
             THEN LET s1 == rl_register_success(s0, ip, t)
                      s2 == set_active(s1, m.device_id, ip)
                  IN  [st |-> mark_seen(s2, t), authenticated |-> TRUE,
                       authed_device_id |-> Some(m.device_id),
                       reply |-> Reply("auth_ok", ""), saved |-> mark_seen_saves(s2),
                       outcome |-> "ok"]
             ELSE [st |-> rl_register_failure(s0, ip, t), authenticated |-> cn.authenticated,
                   authed_device_id |-> cn.authed_device_id,
                   reply |-> Reply("auth_error", "invalid_token"), saved |-> FALSE,
                   outcome |-> "failed"]

\* Variant: the token is checked before the remote address is asked for.
AuthArm_compares_without_ip(s, cn, m, t) ==
    IF IsNone(cn.remote_ip)
    THEN [st |-> s, authenticated |-> cn.authenticated, authed_device_id |-> cn.authed_device_id,
          reply |-> IF is_authorized(s, m.device_id, m.token)
                    THEN Reply("auth_error", "no_remote_ip")
                    ELSE Reply("auth_error", "invalid_token"),
          saved |-> FALSE, outcome |-> "no_ip"]
    ELSE LET ip == Unwrap(cn.remote_ip)
             rem == rl_is_locked(s, ip, t)
             s0 == rl_entry(s, ip, t)
         IN  IF IsSome(rem)
             THEN [st |-> s0, authenticated |-> cn.authenticated,
                   authed_device_id |-> cn.authed_device_id,
                   reply |-> RateLimited("auth", Unwrap(rem)), saved |-> FALSE,
                   outcome |-> "locked"]
             ELSE IF is_authorized(s0, m.device_id, m.token)
             THEN LET s1 == rl_register_success(s0, ip, t)
                      s2 == set_active(s1, m.device_id, ip)
                  IN  [st |-> mark_seen(s2, t), authenticated |-> TRUE,
                       authed_device_id |-> Some(m.device_id),
                       reply |-> Reply("auth_ok", ""), saved |-> mark_seen_saves(s2),
                       outcome |-> "ok"]
             ELSE [st |-> rl_register_failure(s0, ip, t), authenticated |-> FALSE,
                   authed_device_id |-> None,
                   reply |-> Reply("auth_error", "invalid_token"), saved |-> FALSE,
                   outcome |-> "failed"]

AuthArm(s, cn, m, t) ==
    IF IsNone(cn.remote_ip)
    THEN [st |-> s, authenticated |-> cn.authenticated, authed_device_id |-> cn.authed_device_id,
          reply |-> Reply("auth_error", "no_remote_ip"), saved |-> FALSE, outcome |-> "no_ip"]
    ELSE LET ip == Unwrap(cn.remote_ip)
             rem == rl_is_locked(s, ip, t)
             s0 == rl_entry(s, ip, t)
         IN  IF IsSome(rem)
             THEN [st |-> s0, authenticated |-> cn.authenticated,
                   authed_device_id |-> cn.authed_device_id,
                   reply |-> RateLimited("auth", Unwrap(rem)), saved |-> FALSE,
                   outcome |-> "locked"]
             ELSE IF is_authorized(s0, m.device_id, m.token)
             THEN LET s1 == rl_register_success(s0, ip, t)
                      s2 == set_active(s1, m.device_id, ip)
                  IN  [st |-> mark_seen(s2, t), authenticated |-> TRUE,
                       authed_device_id |-> Some(m.device_id),
                       reply |-> Reply("auth_ok", ""), saved |-> mark_seen_saves(s2),
                       outcome |-> "ok"]
             ELSE [st |-> rl_register_failure(s0, ip, t), authenticated |-> FALSE,
                   authed_device_id |-> None,
                   reply |-> Reply("auth_error", "invalid_token"), saved |-> FALSE,
                   outcome |-> "failed"]

\* Variant: an expired code is rotated whether or not a session is active.
must_rotate_when_expired(s, t) == is_expired(s, t)

\* if st.is_expired() && st.active_device_id.is_none()
must_rotate(s, t) == is_expired(s, t) /\ IsNone(s.active_device_id)

\* The Pair arm of handle_ws: one critical section.  `token` is what
\* generate_token() returns if the arm gets that far.
PairArm(s, cn, m, t, token) ==
    IF IsNone(cn.remote_ip)
    THEN [st |-> s, authenticated |-> cn.authenticated, authed_device_id |-> cn.authed_device_id,
          reply |-> Reply("pairing_error", "no_remote_ip"), saved |-> FALSE, outcome |-> "no_ip"]
    ELSE LET ip == Unwrap(cn.remote_ip)
             rem == rl_is_locked(s, ip, t)
             s0 == rl_entry(s, ip, t)
         IN  IF IsSome(rem)
             THEN [st |-> s0, authenticated |-> cn.authenticated,
                   authed_device_id |-> cn.authed_device_id,
                   reply |-> RateLimited("pair", Unwrap(rem)), saved |-> FALSE,
                   outcome |-> "locked"]
             ELSE LET s1 == IF must_rotate(s0, t)
                            THEN [s0 EXCEPT !.code = generate_pairing_code(t),
                                            !.created_at = t]
                            ELSE s0
                  IN  IF s1.code /= m.code
                      THEN [st |-> rl_register_failure(s1, ip, t),
                            authenticated |-> cn.authenticated,
                            authed_device_id |-> cn.authed_device_id,
                            reply |-> Reply("pairing_error", "invalid_code"),
                            saved |-> FALSE, outcome |-> "failed"]
                      ELSE LET s2 == rl_register_success(s1, ip, t)
                               s3 == upsert_authorized(s2, m.device_id, sha256_hex(token),
                                                       None, t)
                               s4 == set_active(s3, m.device_id, ip)
                           IN  [st |-> mark_seen(s4, t), authenticated |-> TRUE,
                                authed_device_id |-> Some(m.device_id),
                                reply |-> PairingOk(token), saved |-> TRUE,
                                outcome |-> "ok"]

\* "if authenticated, ensure active session still matches this device"
StillAuthenticated(s, cn) ==
    IF cn.authenticated /\ IsSome(s.active_device_id) /\ IsSome(cn.authed_device_id)
       /\ s.active_device_id /= cn.authed_device_id
    THEN FALSE
    ELSE cn.authenticated

\* Variant: the command is passed on whether or not the connection is authenticated.
CommandArm_unchecked(s, cn, t) ==
    [st |-> mark_seen(s, t), pc |-> "exec", reply |-> NoReply,
     saved |-> mark_seen_saves(s)]

\* The first half of the device-control arm: the authenticated check and, under
\* the lock, the heartbeat.  pc "exec" hands the command to handle_command.
CommandArm(s, cn, t) ==
    IF ~cn.authenticated
    THEN [st |-> s, pc |-> "reval", reply |-> Reply("error", "not_authenticated"),
          saved |-> FALSE]
    ELSE [st |-> mark_seen(s, t), pc |-> "exec", reply |-> NoReply,
          saved |-> mark_seen_saves(s)]

\* ---------------------------------------------------- history variables
\* A pair/auth by connection c succeeded as device d: c holds the session again,
\* connections claiming d do too, every other authenticated connection is displaced.
LostOnSuccess(c, d) ==
    [c2 \in Conns |->
        IF c2 = c THEN NotLost
        ELSE IF conn[c2].authenticated /\ conn[c2].authed_device_id = Some(d) THEN NotLost
        ELSE IF conn[c2].authenticated /\ lost[c2].why = "no"
             THEN [why |-> "displaced", stage |-> 0]
             ELSE lost[c2]]

\* The active session was cleared (why: "expired" by the watchdog, "revoked" by revoke).
LostOnClear(why) ==
    [c2 \in Conns |->
        IF conn[c2].authenticated /\ IsSome(st.active_device_id)
           /\ conn[c2].authed_device_id = st.active_device_id /\ lost[c2].why = "no"
        THEN [why |-> why, stage |-> 0]
        ELSE lost[c2]]

\* stage 0: the session was lost; 1: the connection is handling its next message;
\* 2: it has handled it.
StartMsg(c) ==
    IF lost[c].why /= "no" /\ lost[c].stage = 0 THEN [lost EXCEPT ![c].stage = 1] ELSE lost

EndMsg(c) ==
    IF lost[c].why /= "no" /\ lost[c].stage = 1 THEN [lost EXCEPT ![c].stage = 2] ELSE lost

\* The RateLimiter as section 4.1 words it, kept beside the code's entries: a
\* source starts a window with 0 attempts when it is first seen; a failure first
\* restarts the window if more than 30s have passed since it began, then counts;
\* a success restarts the window with 0 attempts.
SpecWindow(t) == [since |-> t, n |-> 0, last |-> None]

SpecFailure(w, t) ==
    LET r == IF t - w.since > RL_WINDOW THEN SpecWindow(t) ELSE w
    IN  [r EXCEPT !.n = @ + 1, !.last = Some(t)]

RlSpecAfter(o, cn) ==
    IF IsNone(cn.remote_ip) THEN rl_spec
    ELSE LET ip == Unwrap(cn.remote_ip)
             w == IF IsSome(rl_spec[ip]) THEN Unwrap(rl_spec[ip]) ELSE SpecWindow(now)
         IN  [rl_spec EXCEPT ![ip] =
                 IF o.outcome = "failed" THEN Some(SpecFailure(w, now))
                 ELSE IF o.outcome = "ok" THEN Some(SpecWindow(now))
                 ELSE Some(w)]

\* The failed comparisons of the source are not counted; they are counted, and
\* no lockout of the source has begun yet.
Uncounted == [phase |-> "off", n |-> 0]
NotCompared == [phase |-> "none", n |-> 0]

\* The count of failed comparisons of a source since its latest lockout began,
\* after the arm with outcome o on connection cn: a failure that starts a lockout
\* closes the count it belongs to, the next failure opens a new one.  The count
\* is kept up to MaxCompared.
ComparedAfter(o, cn) ==
    IF IsNone(cn.remote_ip) \/ o.outcome /= "failed" THEN compared
    ELSE IF compared[Unwrap(cn.remote_ip)].phase = "off" THEN compared
    ELSE LET ip == Unwrap(cn.remote_ip)
             cur == compared[ip]
             locks == is_locked(Unwrap(o.st.rate_limit[ip]), now)
             k == IF cur.phase = "none" THEN 0
                  ELSE Min((IF cur.phase = "locked" THEN 0 ELSE cur.n) + 1, MaxCompared)
         IN  [compared EXCEPT ![ip] =
                 [phase |-> IF locks THEN "locked"
                            ELSE IF cur.phase = "none" THEN "none" ELSE "counting",
                  n |-> k]]

\* save_store: the write replaces the file, or fails and is swallowed (let _ =).
save_store(file, store, attempted, written) ==
    IF attempted /\ written THEN Some(to_string_pretty(store)) ELSE file

\* A completed write leaves a complete text in the file.
torn_after(attempted, written) == IF attempted /\ written THEN FALSE ELSE torn

\* The latest attempt to save failed: the file is behind the in-memory store.
unsaved_after(attempted, written) == IF attempted THEN ~written ELSE unsaved

\* ----------------------------------------------------------- the steps
\* The PairingState is built at instant 0 (App::new); run_ws_server is started at
\* one of the instants `starts`.
InitFrom(starts, counting, locking) ==
    /\ started_at \in starts
    /\ now = started_at
    /\ wd_wake = started_at
    /\ disk = None
    /\ st = PairingState_new(generate_pairing_code(0), 0, disk, torn)
    /\ conn = [c \in Conns |-> ClosedConn]
    /\ issued = 0
    /\ rl_spec = [ip \in IPs |-> None]
    /\ token_out = [k \in Tokens |-> << >>]
    /\ lost = [c \in Conns |-> NotLost]
    /\ cancelled = FALSE
    /\ closing = [c \in Conns |-> << >>]
    /\ outbound = [c \in Conns |-> NoOutbound]
    /\ torn = FALSE
    /\ unsaved = FALSE
    /\ wd_pc = "sleep"
    /\ cancelled_at = None
    /\ compared = [ip \in IPs |-> IF counting THEN NotCompared ELSE Uncounted]
    /\ lock = IF locking THEN Unlocked ELSE Unmodelled

\* The history of failed comparisons is kept, and the pairing lock is taken in a
\* step of its own, only where it is asked for.
InitAt(starts) == InitFrom(starts, FALSE, FALSE)

\* The hello frame built from the snapshot taken under one lock.
HelloMsg(s, t) ==
    [type |-> "hello",
     paired |-> IsSome(s.active_device_id),
     active_device_id |-> s.active_device_id,
     authorized_count |-> authorized_count(s),
     pairing_code |-> s.code,
     pairing_code_expired |-> is_expired(s, t)]

\* handle_ws starts: the snapshot is taken under the lock and the hello is built.
Accept(c, remote) ==
    /\ InSection(c)
    /\ lock' = Released
    /\ ~cancelled
    /\ conn[c].pc = "closed"
    /\ conn' = [conn EXCEPT ![c] = [ClosedConn EXCEPT !.pc = "hello", !.remote_ip = remote,
                                                      !.hello = Some(HelloMsg(st, now))]]
    /\ lost' = [lost EXCEPT ![c] = NotLost]
    /\ UNCHANGED << now, started_at, wd_wake, st, disk, issued, rl_spec, token_out, cancelled, closing,
                    outbound, torn, unsaved, wd_pc, cancelled_at, compared >>

\* tx.send(hello): on success the receive loop starts, on failure handle_ws returns.
SendHello(c, sent) ==
    /\ Outside(c)
    /\ conn[c].pc = "hello"
    /\ conn' = [conn EXCEPT ![c] = IF sent THEN [@ EXCEPT !.pc = "recv", !.hello = None]
                                   ELSE ClosedConn]
    /\ outbound' = [outbound EXCEPT ![c] =
                       IF sent THEN [hellos |-> @.hellos + 1,
                                     first |-> IF @.first = "" THEN "hello" ELSE @.first]
                       ELSE NoOutbound]
    /\ UNCHANGED << now, started_at, wd_wake, st, disk, issued, rl_spec, token_out, lost,
                    cancelled, closing, torn, unsaved, wd_pc, cancelled_at, compared, lock >>

\* A client connects: handle_ws starts with fresh locals.  Accept and a successful
\* SendHello in one step, for the specifications in which nothing depends on the
\* content of the hello.
Connect(c, remote) ==
    /\ InSection(c)
    /\ lock' = Released
    /\ ~cancelled
    /\ conn[c].pc = "closed"
    /\ conn' = [conn EXCEPT ![c] = [ClosedConn EXCEPT !.pc = "recv", !.remote_ip = remote]]
    /\ lost' = [lost EXCEPT ![c] = NotLost]
    /\ outbound' = [outbound EXCEPT ![c] = HelloSent]
    /\ UNCHANGED << now, started_at, wd_wake, st, disk, issued, rl_spec, token_out, cancelled, closing,
                    torn, unsaved, wd_pc, cancelled_at, compared >>

\* Variant: a connection that closes takes the session of its device with it.
Disconnect_ends_session(c) ==
    /\ Outside(c)
    /\ conn[c].pc = "recv"
    /\ conn' = [conn EXCEPT ![c] = ClosedConn]
    /\ lost' = [lost EXCEPT ![c] = NotLost]
    /\ st' = IF conn[c].authenticated /\ st.active_device_id = conn[c].authed_device_id
             THEN clear_active(st) ELSE st
    /\ outbound' = [outbound EXCEPT ![c] = NoOutbound]
    /\ UNCHANGED << now, started_at, wd_wake, disk, issued, rl_spec, token_out,
                    cancelled, closing, torn, unsaved, wd_pc, cancelled_at, compared, lock >>

\* rx.next() yields None or an error: the loop breaks, nothing else happens.
Disconnect(c) ==
    /\ Outside(c)
    /\ conn[c].pc = "recv"
    /\ conn' = [conn EXCEPT ![c] = ClosedConn]
    /\ lost' = [lost EXCEPT ![c] = NotLost]
    /\ outbound' = [outbound EXCEPT ![c] = NoOutbound]
    /\ UNCHANGED << now, started_at, wd_wake, st, disk, issued, rl_spec, token_out, cancelled, closing,
                    torn, unsaved, wd_pc, cancelled_at, compared, lock >>

\* Variant: the gate is evaluated before the lock is taken, on an entry of the
\* source read when no lockout was set; the comparison and its record follow in
\* a later critical section.
HandleAuth_gate_outside_lock(c, device_id, token, written) ==
    /\ InSection(c)
    /\ lock' = Released
    /\ conn[c].pc = "recv"
    /\ LET m == AuthMsg(device_id, token)
           ip == conn[c].remote_ip
           read == IF IsSome(ip) /\ IsSome(st.rate_limit[Unwrap(ip)])
                   THEN [st EXCEPT !.rate_limit[Unwrap(ip)] =
                             Some([Unwrap(@) EXCEPT !.lockout_until = None])]
                   ELSE st
           o == AuthArm(read, conn[c], m, now)
       IN  /\ st' = o.st
           /\ disk' = save_store(disk, o.st.store, o.saved, written)
           /\ torn' = torn_after(o.saved, written)
           /\ unsaved' = unsaved_after(o.saved, written)
           /\ conn' = [conn EXCEPT ![c].pc = "reval", ![c].cmd = m.cmd, ![c].reply = o.reply,
                                   ![c].authenticated = o.authenticated,
                                   ![c].authed_device_id = o.authed_device_id]
           /\ rl_spec' = RlSpecAfter(o, conn[c])
           /\ compared' = ComparedAfter(o, conn[c])
           /\ lost' = IF o.outcome = "ok" THEN LostOnSuccess(c, device_id) ELSE StartMsg(c)
    /\ UNCHANGED << now, started_at, wd_wake, issued, token_out, cancelled, closing,
                    outbound, wd_pc, cancelled_at >>

HandleAuth(c, device_id, token, written) ==
    /\ InSection(c)
    /\ lock' = Released
    /\ conn[c].pc = "recv"
    /\ LET m == AuthMsg(device_id, token)
           o == AuthArm(st, conn[c], m, now)
       IN  /\ st' = o.st
           /\ disk' = save_store(disk, o.st.store, o.saved, written)
           /\ torn' = torn_after(o.saved, written)
           /\ unsaved' = unsaved_after(o.saved, written)
           /\ conn' = [conn EXCEPT ![c].pc = "reval", ![c].cmd = m.cmd, ![c].reply = o.reply,
                                   ![c].authenticated = o.authenticated,
                                   ![c].authed_device_id = o.authed_device_id]
           /\ rl_spec' = RlSpecAfter(o, conn[c])
           /\ compared' = ComparedAfter(o, conn[c])
           /\ lost' = IF o.outcome = "ok" THEN LostOnSuccess(c, device_id) ELSE StartMsg(c)
    /\ UNCHANGED << now, started_at, wd_wake, issued, token_out, cancelled, closing,
                    outbound, wd_pc, cancelled_at >>

HandlePair(c, code, device_id, written) ==
    /\ InSection(c)
    /\ lock' = Released
    /\ conn[c].pc = "recv"
    /\ issued < MaxTokens
    /\ LET m == PairMsg(code, device_id)
           o == PairArm(st, conn[c], m, now, issued + 1)
       IN  /\ st' = o.st
           /\ disk' = save_store(disk, o.st.store, o.saved, written)
           /\ torn' = torn_after(o.saved, written)
           /\ unsaved' = unsaved_after(o.saved, written)
           /\ conn' = [conn EXCEPT ![c].pc = "reval", ![c].cmd = m.cmd, ![c].reply = o.reply,
                                   ![c].authenticated = o.authenticated,
                                   ![c].authed_device_id = o.authed_device_id]
           /\ issued' = IF o.outcome = "ok" THEN issued + 1 ELSE issued
           /\ rl_spec' = RlSpecAfter(o, conn[c])
           /\ compared' = ComparedAfter(o, conn[c])
           /\ lost' = IF o.outcome = "ok" THEN LostOnSuccess(c, device_id) ELSE StartMsg(c)
    /\ UNCHANGED << now, started_at, wd_wake, token_out, cancelled, closing,
                    outbound, wd_pc, cancelled_at >>

\* A device-control command arrives: the authenticated check and the heartbeat.
HandleCommand(c, written) ==
    /\ IF conn[c].authenticated THEN InSection(c) ELSE Outside(c)
    /\ lock' = IF conn[c].authenticated THEN Released ELSE lock
    /\ conn[c].pc = "recv"
    /\ LET o == CommandArm(st, conn[c], now)
       IN  /\ st' = o.st
           /\ disk' = save_store(disk, o.st.store, o.saved, written)
           /\ torn' = torn_after(o.saved, written)
           /\ unsaved' = unsaved_after(o.saved, written)
           /\ conn' = [conn EXCEPT ![c].pc = o.pc, ![c].cmd = "command",
                                   ![c].reply = o.reply]
    /\ lost' = StartMsg(c)
    /\ UNCHANGED << now, started_at, wd_wake, issued, rl_spec, token_out, cancelled, closing,
                    outbound, wd_pc, cancelled_at, compared >>

\* Variant: a command that fails ends the session of the connection.
ExecuteCommand_failure_ends_session(c, ok) ==
    /\ Outside(c)
    /\ conn[c].pc = "exec"
    /\ conn' = [conn EXCEPT ![c].pc = "reval",
                            ![c].authenticated = ok,
                            ![c].reply = IF ok THEN Reply("ok", "")
                                         ELSE Reply("error", "command_failed")]
    /\ st' = IF ok THEN st ELSE clear_active(st)
    /\ UNCHANGED << now, started_at, wd_wake, disk, issued, rl_spec, token_out, lost, cancelled, closing,
                    outbound, torn, unsaved, wd_pc, cancelled_at, compared, lock >>

\* handle_command(cmd) runs outside the lock; it returns Ok(v) or Err(e).
ExecuteCommand(c, ok) ==
    /\ Outside(c)
    /\ conn[c].pc = "exec"
    /\ conn' = [conn EXCEPT ![c].pc = "reval",
                            ![c].reply = IF ok THEN Reply("ok", "")
                                         ELSE Reply("error", "command_failed")]
    /\ UNCHANGED << now, started_at, wd_wake, st, disk, issued, rl_spec, token_out, lost, cancelled, closing,
                    outbound, torn, unsaved, wd_pc, cancelled_at, compared, lock >>

\* Text that does not parse as a WsCommand.
HandleBadRequest(c) ==
    /\ Outside(c)
    /\ conn[c].pc = "recv"
    /\ conn' = [conn EXCEPT ![c].pc = "reval", ![c].cmd = "bad",
                            ![c].reply = Reply("error", "bad_request")]
    /\ lost' = StartMsg(c)
    /\ UNCHANGED << now, started_at, wd_wake, st, disk, issued, rl_spec, token_out, cancelled, closing,
                    outbound, torn, unsaved, wd_pc, cancelled_at, compared, lock >>

\* The re-validation block and tx.send(reply): a failed send breaks the loop.
Revalidate(c, sent) ==
    /\ IF conn[c].authenticated THEN InSection(c) ELSE Outside(c)
    /\ lock' = IF conn[c].authenticated THEN Released ELSE lock
    /\ conn[c].pc = "reval"
    /\ LET a == StillAuthenticated(st, conn[c])
           r == conn[c].reply
       IN  /\ conn' = [conn EXCEPT ![c] =
                         IF sent
                         THEN [conn[c] EXCEPT !.pc = "recv", !.cmd = "none",
                                              !.reply = NoReply, !.authenticated = a,
                                              !.authed_device_id =
                                                  IF a = conn[c].authenticated
                                                  THEN conn[c].authed_device_id
                                                  ELSE None]
                         ELSE ClosedConn]
           /\ token_out' = IF sent /\ IsSome(r.token)
                           THEN [token_out EXCEPT ![Unwrap(r.token)] =
                                    Append(@, [conn |-> c, type |-> r.type])]
                           ELSE token_out
           /\ lost' = IF sent THEN EndMsg(c) ELSE [lost EXCEPT ![c] = NotLost]
           /\ outbound' = [outbound EXCEPT ![c] =
                              IF ~sent THEN NoOutbound
                              ELSE IF @.first = "" THEN [@ EXCEPT !.first = r.type]
                              ELSE @]
    /\ UNCHANGED << now, started_at, wd_wake, st, disk, issued, rl_spec, cancelled, closing,
                    torn, unsaved, wd_pc, cancelled_at, compared >>

\* The watchdog task wakes: is_idle_too_long / clear_active, then sleep(5s).
Watchdog ==
    /\ InSection("watchdog")
    /\ lock' = Released
    /\ ~cancelled
    /\ wd_pc = "sleep"
    /\ now >= wd_wake
    /\ IF is_idle_too_long(st, now)
       THEN /\ st' = clear_active(st)
            /\ lost' = LostOnClear("expired")
       ELSE UNCHANGED << st, lost >>
    /\ wd_wake' = now + WATCHDOG_PERIOD
    /\ UNCHANGED << now, started_at, disk, conn, issued, rl_spec, token_out, cancelled, closing,
                    outbound, torn, unsaved, wd_pc, cancelled_at, compared >>

\* Variant: the watchdog does not look at the cancellation token.
WatchdogCheck_never_stops ==
    /\ Outside("watchdog")
    /\ wd_pc = "sleep"
    /\ now >= wd_wake
    /\ wd_pc' = "checked"
    /\ UNCHANGED << now, started_at, wd_wake, st, disk, conn, issued, rl_spec, token_out, lost,
                    cancelled, closing, outbound, torn, unsaved, cancelled_at, compared, lock >>

\* The watchdog in its two steps.  First the top of the loop, once the sleep has
\* ended: if cancel.is_cancelled() { break; }
WatchdogCheck ==
    /\ Outside("watchdog")
    /\ wd_pc = "sleep"
    /\ now >= wd_wake
    /\ wd_pc' = IF cancelled THEN "stopped" ELSE "checked"
    /\ UNCHANGED << now, started_at, wd_wake, st, disk, conn, issued, rl_spec, token_out, lost,
                    cancelled, closing, outbound, torn, unsaved, cancelled_at, compared, lock >>

\* Then the critical section (is_idle_too_long / clear_active) and sleep(5s).
WatchdogRun ==
    /\ InSection("watchdog")
    /\ lock' = Released
    /\ wd_pc = "checked"
    /\ IF is_idle_too_long(st, now)
       THEN /\ st' = clear_active(st)
            /\ lost' = LostOnClear("expired")
       ELSE UNCHANGED << st, lost >>
    /\ wd_wake' = now + WATCHDOG_PERIOD
    /\ wd_pc' = "sleep"
    /\ UNCHANGED << now, started_at, disk, conn, issued, rl_spec, token_out, cancelled, closing,
                    outbound, torn, unsaved, cancelled_at, compared >>

\* The shutdown signal: bind_with_graceful_shutdown's future cancels the token and
\* warp stops accepting connections.
Shutdown ==
    /\ ~cancelled
    /\ cancelled' = TRUE
    /\ cancelled_at' = Some(now)
    /\ UNCHANGED << now, started_at, wd_wake, st, disk, conn, issued, rl_spec, token_out,
                    lost, closing,
                    outbound, torn, unsaved, wd_pc, compared, lock >>

\* select! takes the cancel.cancelled() branch: a close frame is sent and the
\* loop breaks.
ObserveCancel(c) ==
    /\ Outside(c)
    /\ cancelled
    /\ conn[c].pc = "recv"
    /\ conn' = [conn EXCEPT ![c] = ClosedConn]
    /\ closing' = [closing EXCEPT ![c] = << "close" >>]
    /\ lost' = [lost EXCEPT ![c] = NotLost]
    /\ outbound' = [outbound EXCEPT ![c] = NoOutbound]
    /\ UNCHANGED << now, started_at, wd_wake, st, disk, issued, rl_spec, token_out,
                    cancelled, torn, unsaved, wd_pc, cancelled_at, compared, lock >>

\* Variant: a revocation whose save fails is rolled back.
Revoke_rolls_back(device_id, written) ==
    /\ InSection("gui")
    /\ lock' = Released
    /\ IsSome(st.store[device_id])
    /\ st' = IF written THEN revoke_device(st, device_id) ELSE st
    /\ disk' = save_store(disk, st'.store, TRUE, written)
    /\ torn' = torn_after(TRUE, written)
    /\ unsaved' = unsaved_after(TRUE, written)
    /\ lost' = IF written /\ st.active_device_id = Some(device_id)
               THEN LostOnClear("revoked") ELSE lost
    /\ UNCHANGED << now, started_at, wd_wake, conn, issued, rl_spec, token_out, cancelled, closing,
                    outbound, wd_pc, cancelled_at, compared >>

\* The operator clicks Revoke on a listed device (gui.rs).
Revoke(device_id, written) ==
    /\ InSection("gui")
    /\ lock' = Released
    /\ IsSome(st.store[device_id])
    /\ st' = revoke_device(st, device_id)
    /\ disk' = save_store(disk, st'.store, TRUE, written)
    /\ torn' = torn_after(TRUE, written)
    /\ unsaved' = unsaved_after(TRUE, written)
    /\ lost' = IF st.active_device_id = Some(device_id) THEN LostOnClear("revoked") ELSE lost
    /\ UNCHANGED << now, started_at, wd_wake, conn, issued, rl_spec, token_out, cancelled, closing,
                    outbound, wd_pc, cancelled_at, compared >>

\* The stores that a handler or the operator could be saving now.
PendingSaves(E) ==
    UNION {{AuthArm(st, conn[cd[1]], AuthMsg(cd[2], k), now).st.store :
               k \in {y \in 1..issued :
                        AuthArm(st, conn[cd[1]], AuthMsg(cd[2], y), now).saved}} :
           cd \in {x \in E.who : conn[x[1]].pc = "recv"}}
    \cup {PairArm(st, conn[cd[1]], PairMsg(st.code, cd[2]), now, issued + 1).st.store :
        cd \in {x \in E.who : /\ conn[x[1]].pc = "recv"
                               /\ issued < MaxTokens
                               /\ PairArm(st, conn[x[1]], PairMsg(st.code, x[2]), now,
                                          issued + 1).saved}}
    \cup {CommandArm(st, conn[c], now).st.store :
        c \in {x \in E.conns : conn[x].pc = "recv" /\ CommandArm(st, conn[x], now).saved}}
    \cup {revoke_device(st, d).store : d \in {x \in Devices : IsSome(st.store[x])}}

\* The process starts again (App::new, run_ws_server): every connection and task
\* of the old process is gone, the PairingState is built from the file.
\* started_at stays the instant of the first start.
Restart(file, partial) ==
    /\ st' = PairingState_new(generate_pairing_code(now), now, file, partial)
    /\ conn' = [c \in Conns |-> ClosedConn]
    /\ wd_wake' = now
    /\ wd_pc' = "sleep"
    /\ cancelled' = FALSE
    /\ cancelled_at' = None
    /\ compared' = [ip \in IPs |-> IF compared[ip].phase = "off" THEN Uncounted
                                    ELSE NotCompared]
    /\ closing' = [c \in Conns |-> << >>]
    /\ outbound' = [c \in Conns |-> NoOutbound]
    /\ lost' = [c \in Conns |-> NotLost]
    /\ rl_spec' = [ip \in IPs |-> None]
    /\ unsaved' = FALSE
    /\ lock' = Released
    /\ UNCHANGED << now, started_at, issued, token_out >>

\* The process dies while no save is in progress, and is started again.
Crash ==
    /\ Restart(disk, torn)
    /\ UNCHANGED << disk, torn >>

\* The process dies inside save_store(path, new) and is started again.  fs::write
\* truncates the file and then writes the text: the file is left as it was
\* ("before"), with the beginning of the text ("during"), or complete ("after").
CrashInSave(new, at) ==
    /\ disk' = IF at = "before" THEN disk ELSE Some(to_string_pretty(new))
    /\ torn' = IF at = "before" THEN torn ELSE (at = "during")
    /\ Restart(disk', torn')

\* Time passes.  sleep(5s) ends no earlier than asked; how much later the watchdog
\* task runs is up to the scheduler.
Tick(step, horizon) ==
    /\ now - started_at < horizon
    /\ now' = now + step
    /\ UNCHANGED << started_at, wd_wake, st, disk, conn, issued, rl_spec, token_out, lost, cancelled, closing,
                    outbound, torn, unsaved, wd_pc, cancelled_at, compared, lock >>

\* Time passes under a timely scheduler: the watchdog runs at the instant its
\* sleep ends, so the clock never passes wd_wake without it.
TimelyTick(step, horizon) ==
    /\ now < wd_wake
    /\ now - started_at < horizon
    /\ now' = Min(now + step, wd_wake)
    /\ UNCHANGED << started_at, wd_wake, st, disk, conn, issued, rl_spec, token_out, lost, cancelled, closing,
                    outbound, torn, unsaved, wd_pc, cancelled_at, compared, lock >>

\* The codes a client may present: the one on display ("shown"), the one a
\* rotation would produce now ("fresh"), and one that is neither ("wrong").
PresentedCode(kind) ==
    IF kind = "shown" THEN st.code
    ELSE IF kind = "fresh" THEN generate_pairing_code(now)
    ELSE CODE_MODULUS - 1

CodeKinds == {"shown", "fresh", "wrong"}

\* The tokens a client may present for device d: the one issued to d that is still
\* valid ("current"), the others ever issuable ("stale"), one never issued ("wrong").
PresentedTokensOf(kind, d) ==
    IF kind = "current" THEN {k \in Tokens : is_authorized(st, d, k)}
    ELSE IF kind = "stale" THEN {k \in Tokens : ~is_authorized(st, d, k)}
    ELSE {0}

TokenKinds == {"current", "stale", "wrong"}

\* The steps of the connection tasks, in the environment E.  E.conns: the client
\* connections; E.remotes: the addresses they connect from; E.who: the pairs
\* << c, d >> such that the client on connection c presents device id d;
\* E.tokens and E.codes: the tokens and the kinds of code clients present;
\* E.writes: the outcomes a write of the allow-list file may have.
Serve(E) ==
    \/ \E c \in E.conns : Disconnect(c)
    \/ \E cd \in E.who, kind \in E.tokens, w \in E.writes :
          \E k \in PresentedTokensOf(kind, cd[2]) : HandleAuth(cd[1], cd[2], k, w)
    \/ \E cd \in E.who, kind \in E.codes, w \in E.writes :
          HandlePair(cd[1], PresentedCode(kind), cd[2], w)
    \/ \E c \in E.conns, w \in E.writes : HandleCommand(c, w)
    \/ \E c \in E.conns, ok \in BOOLEAN : ExecuteCommand(c, ok)
    \/ \E c \in E.conns : HandleBadRequest(c)
    \/ \E c \in E.conns, sent \in BOOLEAN : Revalidate(c, sent)

\* The steps of the server's tasks: connections are accepted and served, and the
\* watchdog runs an iteration of its loop in one step.
Steps(E) ==
    \/ \E c \in E.conns, remote \in E.remotes : Connect(c, remote)
    \/ Serve(E)
    \/ Watchdog

\* The operator at the host's window revokes a listed device.
Operator == \E d \in Devices : Revoke(d, TRUE)

\* One client, one address, one device; wrong and right credentials; the clock
\* runs long enough for a lockout to end and a window to elapse.
OneClient ==
    [conns |-> {"c1"}, remotes |-> {Some("ip1")}, who |-> {<< "c1", "A" >>},
     tokens |-> TokenKinds, codes |-> CodeKinds, writes |-> {TRUE}]

\* Two clients on one address, each with its own device id and presenting only
\* valid credentials; no operator.
TwoClients ==
    [conns |-> {"c1", "c2"}, remotes |-> {Some("ip1")},
     who |-> {<< "c1", "A" >>, << "c2", "B" >>},
     tokens |-> {"current"}, codes |-> {"shown"}, writes |-> {TRUE}]

\* One client presenting only valid credentials.
OneGoodClient ==
    [conns |-> {"c1"}, remotes |-> {Some("ip1")}, who |-> {<< "c1", "A" >>},
     tokens |-> {"current"}, codes |-> {"shown"}, writes |-> {TRUE}]

\* One client and the operator.  The server is started at once, or one tick
\* before the initial code reaches its TTL.
Init == InitAt({0, PAIRING_TTL - TickStep})

Next ==
    \/ Steps(OneClient)
    \/ Operator
    \/ Tick(TickStep, Horizon)

Spec == Init /\ [][Next]_vars

\* Two clients racing for the session, and one tick of the clock.
InitTwo == InitAt({0})

NextTwo ==
    \/ Steps(TwoClients)
    \/ Tick(TickStep, TickStep)

SpecTwo == InitTwo /\ [][NextTwo]_vars

\* One client, the operator and a timely watchdog: the clock advances from one
\* watchdog run to the next.
NextTimely ==
    \/ Steps(OneGoodClient)
    \/ Operator
    \/ TimelyTick(TickStep, TimelyHorizon)

SpecTimely == InitTwo /\ [][NextTimely]_vars

\* One client that presents either device id with valid credentials.
OneClientTwoDevices ==
    [conns |-> {"c1"}, remotes |-> {Some("ip1")},
     who |-> {<< "c1", "A" >>, << "c1", "B" >>},
     tokens |-> {"current"}, codes |-> {"shown"}, writes |-> {TRUE}]

\* One client with two device ids, the operator, one tick of the clock, and the
\* shutdown signal.
NextOps ==
    \/ Steps(OneClientTwoDevices)
    \/ Operator
    \/ Shutdown
    \/ \E c \in {"c1"} : ObserveCancel(c)
    \/ Tick(TickStep, TickStep)

SpecOps == InitTwo /\ [][NextOps]_vars

\* One client that pairs with the code on display and presents right and wrong
\* tokens.
OneAuthClient ==
    [conns |-> {"c1"}, remotes |-> {Some("ip1")}, who |-> {<< "c1", "A" >>},
     tokens |-> TokenKinds, codes |-> {"shown"}, writes |-> {TRUE}]

\* One client authenticating, the operator, and the clock.
NextAuth ==
    \/ Steps(OneAuthClient)
    \/ Operator
    \/ Tick(TickStep, Horizon)

SpecAuth == InitTwo /\ [][NextAuth]_vars

\* One client that pairs and commands while a second one connects; connecting is
\* taken in its two steps, the snapshot and the send.
PairingAndObserver ==
    [conns |-> {"c1", "c2"}, remotes |-> {Some("ip1")}, who |-> {<< "c1", "A" >>},
     tokens |-> {"current"}, codes |-> {"shown"}, writes |-> {TRUE}]

\* The server is started when the pairing code is fresh or at the end of its life.
InitHello == InitAt({0, PAIRING_TTL})

NextHello ==
    \/ \E c \in PairingAndObserver.conns, remote \in PairingAndObserver.remotes :
          Accept(c, remote)
    \/ \E c \in PairingAndObserver.conns, sent \in BOOLEAN : SendHello(c, sent)
    \/ Serve(PairingAndObserver)
    \/ Watchdog
    \/ Operator
    \/ Tick(TickStep, TickStep)

SpecHello == InitHello /\ [][NextHello]_vars

\* One client that pairs and presents the tokens issued so far, the operator, and
\* a process that may die at any point, a save included, and is started again.
StoreClient ==
    [conns |-> {"c1"}, remotes |-> {Some("ip1"), None}, who |-> {<< "c1", "A" >>},
     tokens |-> {"current", "stale"}, codes |-> {"shown"}, writes |-> {TRUE}]

SaveInstants == {"before", "during", "after"}

NextStore ==
    \/ Steps(StoreClient)
    \/ Operator
    \/ Crash
    \/ \E new \in PendingSaves(StoreClient), at \in SaveInstants : CrashInSave(new, at)
    \/ Tick(TickStep, TickStep)

SpecStore == InitTwo /\ [][NextStore]_vars

\* One client with valid credentials and the operator, while writes of the
\* allow-list file succeed or fail.
FailingDisk ==
    [conns |-> {"c1"}, remotes |-> {Some("ip1")}, who |-> {<< "c1", "A" >>},
     tokens |-> {"current"}, codes |-> {"shown"}, writes |-> BOOLEAN]

NextSwallow ==
    \/ Steps(FailingDisk)
    \/ \E d \in Devices, w \in FailingDisk.writes : Revoke(d, w)
    \/ Tick(TickStep, TickStep)

SpecSwallow == InitTwo /\ [][NextSwallow]_vars

\* One client that connects from either of two addresses, pairs with the code on
\* display and presents right and wrong tokens.
TwoSources ==
    [conns |-> {"c1"}, remotes |-> {Some("ip1"), Some("ip2")}, who |-> {<< "c1", "A" >>},
     tokens |-> {"current", "wrong"}, codes |-> {"shown"}, writes |-> {TRUE}]

NextSources ==
    \/ Steps(TwoSources)
    \/ Tick(TickStep, TickStep)

SpecSources == InitTwo /\ [][NextSources]_vars

\* One client that pairs and presents right and wrong tokens, on a clock fine
\* enough for attempts to fall inside a lockout and at its end.
NextLockout ==
    \/ Steps(OneAuthClient)
    \/ Tick(FineStep, FineHorizon)

SpecLockout == InitTwo /\ [][NextLockout]_vars

\* One client with valid credentials, the shutdown signal, and a timely watchdog
\* whose check of the cancellation token and whose critical section are two steps.
NextWatchdog ==
    \/ \E c \in OneGoodClient.conns, remote \in OneGoodClient.remotes : Connect(c, remote)
    \/ Serve(OneGoodClient)
    \/ WatchdogCheck
    \/ WatchdogRun
    \/ Shutdown
    \/ \E c \in OneGoodClient.conns : ObserveCancel(c)
    \/ TimelyTick(TickStep, TimelyHorizon)

SpecWatchdog == InitTwo /\ [][NextWatchdog]_vars

\* ------------------------------------------------------------ properties
\* Connection c takes the step that reads one message of kind `cmd`.
Reads(c, cmd) == conn[c].pc = "recv" /\ conn'[c].pc /= "recv" /\ conn'[c].cmd = cmd

\* Connection c takes the step that ends the handling of its message.
Replies(c) == conn[c].pc = "reval" /\ conn'[c].pc /= "reval"

\* C1: a device-control command read on a connection that is not authenticated
\* is never handed to the executor; its reply is error{not_authenticated}; and
\* neither the step that reads it nor the step that sends the reply changes the
\* pairing state, the allow-list file or the connection's authentication state.
C1_UnauthenticatedCommandRejected ==
    [][\A c \in Conns :
          /\ (Reads(c, "command") /\ ~conn[c].authenticated)
                => /\ conn'[c].pc = "reval"
                   /\ conn'[c].reply = Reply("error", "not_authenticated")
                   /\ st' = st /\ disk' = disk
                   /\ ~conn'[c].authenticated
                   /\ conn'[c].authed_device_id = conn[c].authed_device_id
          /\ (Replies(c) /\ conn[c].reply = Reply("error", "not_authenticated"))
                => /\ st' = st /\ disk' = disk
                   /\ ~conn'[c].authenticated
                   /\ conn'[c].authed_device_id = None
      ]_vars

\* An unauthenticated connection's command has been refused while another
\* device's session is active.
C1_Witness ==
    \E c \in Conns :
        /\ conn[c].pc = "reval" /\ conn[c].cmd = "command"
        /\ conn[c].reply = Reply("error", "not_authenticated")
        /\ IsSome(st.active_device_id) /\ IsSome(st.last_seen)

\* C2 (as stated): whenever a connection hands a command to the executor, the
\* active session is set and names the device that connection claims.
C2_ExecutorOnlyForActiveDevice ==
    \A c \in Conns :
        conn[c].pc = "exec"
            => /\ IsSome(st.active_device_id)
               /\ st.active_device_id = conn[c].authed_device_id

\* C3: the active session names at most one device, and every pair or auth that
\* succeeds leaves the session with the device and the address of the connection
\* whose critical section it was: of two that succeed, the later one holds it.
C3_LastSuccessHoldsSession ==
    [][\A c \in Conns :
          ((Reads(c, "auth") \/ Reads(c, "pair"))
             /\ conn'[c].reply.type \in {"auth_ok", "pairing_ok"})
                => /\ conn'[c].authenticated
                   /\ IsSome(conn'[c].authed_device_id)
                   /\ st'.active_device_id = conn'[c].authed_device_id
                   /\ st'.active_client_ip = conn[c].remote_ip
                   /\ st'.last_seen = Some(now)
                   /\ \A d \in Devices :
                         Some(d) /= conn'[c].authed_device_id
                             => st'.active_device_id /= Some(d)
      ]_vars

\* Connection c1 is authenticated as A, and c2 has just succeeded as B: the
\* session is B's.
C3_Witness ==
    /\ conn["c1"].authenticated /\ conn["c1"].authed_device_id = Some("A")
    /\ conn["c2"].pc = "reval" /\ conn["c2"].reply.type \in {"auth_ok", "pairing_ok"}
    /\ conn["c2"].authed_device_id = Some("B")
    /\ st.active_device_id = Some("B")

\* C4 (as stated): a connection whose device was displaced by another
\* connection's successful pair or auth as a different device is no longer
\* authenticated once it has handled its next message.
C4_DisplacedConnectionDemoted ==
    \A c \in Conns :
        (lost[c].why = "displaced" /\ lost[c].stage = 2) => ~conn[c].authenticated

\* C5 (as stated): a connection authenticated as the device whose session the
\* watchdog cleared is no longer authenticated once it has handled its next
\* message.
C5_ExpiredConnectionDemoted ==
    \A c \in Conns :
        (lost[c].why = "expired" /\ lost[c].stage = 2) => ~conn[c].authenticated

\* The rate-limit entry the code keeps for source ip.
RlEntry(ip) == Unwrap(st.rate_limit[ip])

\* C6: for every source, with the failures counted in the window section 4.1
\* defines: once the count has reached 5 the source was locked at the instant of
\* its latest failure, for 30 s from then; while the count is below 5 the source
\* is not locked; and after a success (count 0) the entry has no attempts and no
\* lockout.
C6_LockedAtFifthFailure ==
    \A ip \in IPs :
        IsSome(rl_spec[ip]) =>
            LET w == Unwrap(rl_spec[ip])
            IN  /\ IsSome(st.rate_limit[ip])
                /\ w.n >= RL_MAX_ATTEMPTS
                      => /\ IsSome(w.last)
                         /\ is_locked(RlEntry(ip), Unwrap(w.last))
                         /\ RlEntry(ip).lockout_until = Some(Unwrap(w.last) + RL_LOCKOUT)
                /\ w.n < RL_MAX_ATTEMPTS => ~is_locked(RlEntry(ip), now)
                /\ w.n = 0
                      => /\ RlEntry(ip).attempts = 0
                         /\ IsNone(RlEntry(ip).lockout_until)

\* The fifth failure of a window has just been recorded and the source is locked.
C6_Witness ==
    \E ip \in IPs :
        /\ IsSome(rl_spec[ip]) /\ IsSome(st.rate_limit[ip])
        /\ Unwrap(rl_spec[ip]).n = RL_MAX_ATTEMPTS
        /\ Unwrap(rl_spec[ip]).last = Some(now)
        /\ is_locked(RlEntry(ip), now)

\* Source ip is inside a lockout at instant t.
InLockout(ip, t) ==
    /\ IsSome(st.rate_limit[ip])
    /\ IsSome(RlEntry(ip).lockout_until)
    /\ t < Unwrap(RlEntry(ip).lockout_until)

\* Source ip has failed 4 times in a row in a window that is still open.
FourFailures(ip) ==
    /\ IsSome(rl_spec[ip])
    /\ Unwrap(rl_spec[ip]).n = RL_MAX_ATTEMPTS - 1
    /\ now - Unwrap(rl_spec[ip]).since <= RL_WINDOW

\* C7 (as stated): with device d paired, the reply to the 5th wrong auth in a
\* row is rate_limited; an auth with d's correct token is answered auth_ok when
\* the lockout has elapsed and rate_limited before.
C7_FifthWrongAuthRateLimited ==
    [][\A c \in Conns, d \in Devices, k \in 0..MaxTokens :
          (/\ Reads(c, "auth") /\ IsSome(conn[c].remote_ip) /\ IsSome(st.store[d])
           /\ HandleAuth(c, d, k, TRUE))
             => LET ip == Unwrap(conn[c].remote_ip)
                IN  /\ (FourFailures(ip) /\ ~is_authorized(st, d, k))
                          => conn'[c].reply.type = "rate_limited"
                    /\ is_authorized(st, d, k)
                          => conn'[c].reply.type =
                                IF InLockout(ip, now) THEN "rate_limited" ELSE "auth_ok"
      ]_vars

\* C7 (amended): with device d paired, the reply to the 5th wrong auth in a row
\* within one window is auth_error{invalid_token}, and that attempt locks the
\* source for 30 s; every auth from the source during the lockout is answered
\* rate_limited; an auth with d's correct token is answered auth_ok when the
\* lockout has elapsed and rate_limited before.
C7_FifthWrongAuthLocks ==
    [][\A c \in Conns, d \in Devices, k \in 0..MaxTokens :
          (/\ Reads(c, "auth") /\ IsSome(conn[c].remote_ip) /\ IsSome(st.store[d])
           /\ HandleAuth(c, d, k, TRUE))
             => LET ip == Unwrap(conn[c].remote_ip)
                IN  /\ (FourFailures(ip) /\ ~is_authorized(st, d, k))
                          => /\ conn'[c].reply = Reply("auth_error", "invalid_token")
                             /\ IsSome(st'.rate_limit[ip])
                             /\ Unwrap(st'.rate_limit[ip]).lockout_until
                                   = Some(now + RL_LOCKOUT)
                    /\ InLockout(ip, now)
                          => /\ conn'[c].reply.type = "rate_limited"
                             /\ conn'[c].reply.reason = "auth"
                             /\ st'.active_device_id = st.active_device_id
                    /\ is_authorized(st, d, k)
                          => conn'[c].reply.type =
                                IF InLockout(ip, now) THEN "rate_limited" ELSE "auth_ok"
      ]_vars

\* Device A is paired and the 5th wrong auth in a row has just been answered:
\* the reply is auth_error and the source is locked from now on.
C7_Witness ==
    \E c \in Conns :
        /\ conn[c].pc = "reval" /\ conn[c].cmd = "auth"
        /\ conn[c].reply = Reply("auth_error", "invalid_token")
        /\ IsSome(st.store["A"])
        /\ IsSome(conn[c].remote_ip)
        /\ IsSome(rl_spec[Unwrap(conn[c].remote_ip)])
        /\ Unwrap(rl_spec[Unwrap(conn[c].remote_ip)]).n = RL_MAX_ATTEMPTS
        /\ InLockout(Unwrap(conn[c].remote_ip), now)

\* C8: a pair that presents the code on display, not older than its TTL, from a
\* known source that is not locked, is answered pairing_ok with a fresh token;
\* the device's entry in the allow-list, in memory and in the file, holds the
\* hash of that token; the active session is that device at that source; and the
\* connection is authenticated as that device.
C8_PairSucceeds ==
    [][\A c \in Conns, d \in Devices :
          (/\ Reads(c, "pair")
           /\ IsSome(conn[c].remote_ip)
           /\ ~InLockout(Unwrap(conn[c].remote_ip), now)
           /\ now - st.created_at <= PAIRING_TTL
           /\ HandlePair(c, st.code, d, TRUE))
             => /\ conn'[c].reply.type = "pairing_ok"
                /\ conn'[c].reply.token = Some(issued + 1)
                /\ issued' = issued + 1
                /\ IsSome(st'.store[d])
                /\ Unwrap(st'.store[d]).token_hash = sha256_hex(issued + 1)
                /\ disk' = Some(to_string_pretty(st'.store))
                /\ st'.active_device_id = Some(d)
                /\ st'.active_client_ip = conn[c].remote_ip
                /\ conn'[c].authenticated
                /\ conn'[c].authed_device_id = Some(d)
      ]_vars

\* A pair has just succeeded with a code exactly as old as its TTL.
C8_Witness ==
    \E c \in Conns :
        /\ conn[c].pc = "reval" /\ conn[c].reply.type = "pairing_ok"
        /\ now - st.created_at = PAIRING_TTL
        /\ st.active_device_id = conn[c].authed_device_id

\* The allow-lists that exist: the one in memory and, if written, the one on file.
Stores == {st.store} \cup (IF IsSome(disk) THEN {from_str(Unwrap(disk))} ELSE {})

\* The connections whose pending reply carries token k.
Carrying(k) == {c \in Conns : conn[c].reply.token = Some(k)}

\* C9: no allow-list entry, in memory or on file, holds a token: each holds the
\* hash of a token that was issued.  A token is carried by at most one outbound
\* message, the pairing_ok reply on the connection that paired, and by no message
\* before it is issued.
C9_TokenNeverStored ==
    /\ \A store \in Stores : \A d \in Devices :
          IsSome(store[d])
             => /\ Unwrap(store[d]).token_hash \notin 0..MaxTokens
                /\ \E k \in 1..issued : Unwrap(store[d]).token_hash = sha256_hex(k)
    /\ \A k \in Tokens :
          /\ Cardinality(Carrying(k)) + Len(token_out[k]) <= 1
          /\ k > issued => (Carrying(k) = {} /\ token_out[k] = << >>)
          /\ \A c \in Carrying(k) :
                /\ conn[c].pc = "reval" /\ conn[c].cmd = "pair"
                /\ conn[c].reply.type = "pairing_ok"
          /\ \A i \in 1..Len(token_out[k]) : token_out[k][i].type = "pairing_ok"
    /\ \A c \in Conns :
          conn[c].reply.type /= "pairing_ok" => IsNone(conn[c].reply.token)

\* A token has gone out in its pairing_ok reply and its hash is in the
\* allow-list, in memory and on file.
C9_Witness ==
    \E k \in Tokens, d \in Devices :
        /\ Len(token_out[k]) = 1
        /\ IsSome(st.store[d]) /\ Unwrap(st.store[d]).token_hash = sha256_hex(k)
        /\ disk = Some(to_string_pretty(st.store))

\* C10: with the watchdog running when its sleep ends, an active session is never
\* left with a last_seen older than the idle timeout plus one watchdog period,
\* whatever the connections do or do not send.
C10_IdleSessionCleared ==
    (IsSome(st.active_device_id) /\ IsSome(st.last_seen))
        => now - Unwrap(st.last_seen) <= PAIRING_IDLE_TIMEOUT + WATCHDOG_PERIOD

\* The watchdog has cleared the session of a connection that is open and silent.
C10_Witness ==
    /\ IsNone(st.active_device_id) /\ IsNone(st.last_seen)
    /\ \E c \in Conns :
          /\ lost[c].why = "expired" /\ lost[c].stage = 0
          /\ conn[c].pc = "recv" /\ conn[c].authenticated

\* C11: revoke(d) removes d from the allow-list and leaves the other entries;
\* if d holds the active session, the session's device, address and last_seen
\* are cleared; if it does not, the active session is unchanged; and in both
\* cases the pairing code, its issue time and the rate-limit map are unchanged.
C11_RevokeFrame ==
    [][\A d \in Devices :
          (st'.store /= st.store /\ IsNone(st'.store[d]) /\ Revoke(d, TRUE))
             => /\ \A e \in Devices \ {d} : st'.store[e] = st.store[e]
                /\ disk' = Some(to_string_pretty(st'.store))
                /\ st'.code = st.code /\ st'.created_at = st.created_at
                /\ st'.rate_limit = st.rate_limit
                /\ IF st.active_device_id = Some(d)
                   THEN /\ IsNone(st'.active_device_id)
                        /\ IsNone(st'.active_client_ip)
                        /\ IsNone(st'.last_seen)
                   ELSE /\ st'.active_device_id = st.active_device_id
                        /\ st'.active_client_ip = st.active_client_ip
                        /\ st'.last_seen = st.last_seen
      ]_vars

\* Device A has been revoked while device B, still listed, holds the session.
C11_Witness ==
    /\ IsNone(st.store["A"]) /\ IsSome(st.store["B"])
    /\ disk = Some(to_string_pretty(st.store))
    /\ st.active_device_id = Some("B") /\ IsSome(st.last_seen)
    /\ issued = MaxTokens

\* C12 (as stated): in every reachable state the active session's device id is
\* present exactly when its last_seen is present.
C12_DeviceIffLastSeen ==
    IsSome(st.active_device_id) <=> IsSome(st.last_seen)

C14_CheckDoesNotMutate ==
    \A ip \in IPs :
        /\ rl_entry(st, ip, now) = st
        /\ rl_is_locked(rl_entry(st, ip, now), ip, now) = rl_is_locked(st, ip, now)

\* C15: the pairing code and its issue time change only in a step that reads a
\* pair while the code is older than its TTL and no session is active (the new
\* code is then generated at that instant); every other step, and every step
\* taken while a session is active, leaves both as they are.
C15_CodeRotatesOnlyWhenExpiredAndFree ==
    [][(st'.code /= st.code \/ st'.created_at /= st.created_at)
          => /\ \E c \in Conns : Reads(c, "pair")
             /\ now - st.created_at > PAIRING_TTL
             /\ IsNone(st.active_device_id)
             /\ st'.code = generate_pairing_code(now)
             /\ st'.created_at = now
      ]_vars

\* The code has been rotated after its TTL.
C15_Witness ==
    /\ st.created_at > PAIRING_TTL
    /\ st.code = generate_pairing_code(st.created_at)

\* C16: a pair for a device id that is already in the allow-list, presenting
\* the code in force from a known source that is not locked, is answered
\* pairing_ok with a new token; the allow-list keeps one entry for that id, now
\* holding the hash of the new token, and its other entries; the new token
\* authenticates the device and no token issued before does.
C16_RepairRotatesCredential ==
    [][\A c \in Conns, d \in Devices :
          (/\ Reads(c, "pair")
           /\ IsSome(st.store[d])
           /\ IsSome(conn[c].remote_ip)
           /\ ~InLockout(Unwrap(conn[c].remote_ip), now)
           /\ (now - st.created_at <= PAIRING_TTL \/ IsSome(st.active_device_id))
           /\ HandlePair(c, st.code, d, TRUE))
             => /\ conn'[c].reply.type = "pairing_ok"
                /\ conn'[c].reply.token = Some(issued + 1)
                /\ IsSome(st'.store[d])
                /\ Unwrap(st'.store[d]).token_hash = sha256_hex(issued + 1)
                /\ \A e \in Devices \ {d} : st'.store[e] = st.store[e]
                /\ authorized_count(st') = authorized_count(st)
                /\ is_authorized(st', d, issued + 1)
                /\ \A k \in 0..issued : ~is_authorized(st', d, k)
      ]_vars

\* Device A, whose first token went out, has just paired again: its entry holds
\* the hash of the second token and the first no longer authenticates.
C16_Witness ==
    \E c \in Conns :
        /\ conn[c].pc = "reval" /\ conn[c].reply = PairingOk(2)
        /\ conn[c].authed_device_id = Some("A")
        /\ token_out[1] = << [conn |-> c, type |-> "pairing_ok"] >>
        /\ is_authorized(st, "A", 2) /\ ~is_authorized(st, "A", 1)

\* The allow-list has an entry for d whose hash is the hash of token k.
Matches(d, k) ==
    IsSome(st.store[d]) /\ Unwrap(st.store[d]).token_hash = sha256_hex(k)

\* The entry of source ip, or the one its first attempt creates.
RlEntryOrNew(ip) ==
    IF IsSome(st.rate_limit[ip]) THEN RlEntry(ip) ELSE RateLimitEntry_new(now)

\* C17: an auth from a known source that is not locked is answered auth_ok
\* exactly when the allow-list has an entry for the device id with the hash of
\* the presented token.  On success the session becomes that device at that
\* source with last_seen = now, the connection is authenticated as the device
\* and the source's attempts and lockout are reset.  On failure the reply is
\* auth_error{invalid_token}, the source's attempts in the current window grow
\* by one, and code, session, allow-list and file are unchanged.
C17_AuthDecidedByStoredHash ==
    [][\A c \in Conns, d \in Devices, k \in 0..MaxTokens :
          (/\ Reads(c, "auth")
           /\ IsSome(conn[c].remote_ip)
           /\ ~InLockout(Unwrap(conn[c].remote_ip), now)
           /\ HandleAuth(c, d, k, TRUE))
             => LET ip == Unwrap(conn[c].remote_ip)
                    e == RlEntryOrNew(ip)
                    e2 == Unwrap(st'.rate_limit[ip])
                IN  IF Matches(d, k)
                    THEN /\ conn'[c].reply = Reply("auth_ok", "")
                         /\ conn'[c].authenticated
                         /\ conn'[c].authed_device_id = Some(d)
                         /\ st'.active_device_id = Some(d)
                         /\ st'.active_client_ip = Some(ip)
                         /\ st'.last_seen = Some(now)
                         /\ e2.attempts = 0 /\ IsNone(e2.lockout_until)
                         /\ st'.code = st.code /\ st'.created_at = st.created_at
                    ELSE /\ conn'[c].reply = Reply("auth_error", "invalid_token")
                         /\ e2.attempts =
                               (IF now - e.window_start > RL_WINDOW THEN 0 ELSE e.attempts) + 1
                         /\ st'.active_device_id = st.active_device_id
                         /\ st'.active_client_ip = st.active_client_ip
                         /\ st'.last_seen = st.last_seen
                         /\ st'.store = st.store /\ disk' = disk
                         /\ st'.code = st.code /\ st'.created_at = st.created_at
      ]_vars

\* An auth has just succeeded after the clock moved on: the session is the
\* device's, last_seen is now and the source's entry is reset.
C17_Witness ==
    \E c \in Conns :
        /\ conn[c].pc = "reval" /\ conn[c].reply = Reply("auth_ok", "")
        /\ st.active_device_id = conn[c].authed_device_id
        /\ st.last_seen = Some(now)
        /\ RlEntry(Unwrap(conn[c].remote_ip)).attempts = 0
        /\ RlEntry(Unwrap(conn[c].remote_ip)).window_start = now
        /\ now > started_at

\* C18 (as stated): a text message that is not a known command is answered
\* error{bad_request}; from the step that reads it to the step that sends the
\* reply, the connection's authenticated flag and claimed device id and the
\* pairing state, rate-limit entries included, stay as they were; and the
\* connection goes back to receiving.
C18_BadRequestLeavesConnection ==
    [][\A c \in Conns :
          /\ Reads(c, "bad")
                => /\ conn'[c].reply = Reply("error", "bad_request")
                   /\ st' = st /\ disk' = disk
                   /\ conn'[c].authenticated = conn[c].authenticated
                   /\ conn'[c].authed_device_id = conn[c].authed_device_id
          /\ (Replies(c) /\ conn[c].cmd = "bad" /\ conn'[c].pc = "recv")
                => /\ st' = st /\ disk' = disk
                   /\ conn'[c].authenticated = conn[c].authenticated
                   /\ conn'[c].authed_device_id = conn[c].authed_device_id
      ]_vars

\* C19 (as stated, its safety part): a connection whose loop ended on the
\* shutdown signal has sent a shutdown notice followed by a close, and has
\* stopped: it reads no message and executes no command afterwards.
C19_ShutdownNoticeThenClose ==
    \A c \in Conns :
        closing[c] /= << >>
            => /\ closing[c] = << "shutdown", "close" >>
               /\ conn[c].pc = "closed"

\* C20: the step in which a connection's loop ends because the peer closed, the
\* receive stream failed or a reply could not be sent changes nothing of the
\* authority: active session, code, allow-list, rate-limit map and file are as
\* before.  An active session is changed only by a watchdog run, by a step that
\* reads a pair or an auth, or by the operator's revoke.
C20_DisconnectChangesNothing ==
    [][/\ \A c \in Conns :
             (conn[c].pc /= "closed" /\ conn'[c].pc = "closed" /\ ~cancelled)
                => st' = st /\ disk' = disk
       /\ (IsSome(st.active_device_id) /\ st'.active_device_id /= st.active_device_id)
             => \/ wd_wake' /= wd_wake
                \/ \E c \in Conns : Reads(c, "auth") \/ Reads(c, "pair")
                \/ \E d \in Devices : Revoke(d, TRUE)
      ]_vars

\* The client that holds the session has gone and time has passed: the session
\* is still active.
C20_Witness ==
    /\ \A c \in Conns : conn[c].pc = "closed"
    /\ st.active_device_id = Some("A") /\ IsSome(st.active_client_ip)
    /\ IsSome(st.last_seen) /\ now > Unwrap(st.last_seen)

\* --------------------------------------------------------------------- C21
Serving(c) == conn[c].pc \in {"recv", "exec", "reval"}

\* The hello built in this step carries, under the key `expired_key`, whether the
\* pairing code is expired, and its other fields agree with the PairingState.
HelloAgrees(c, expired_key) ==
    LET h == Unwrap(conn'[c].hello)
    IN  /\ h.type = "hello"
        /\ h.paired = (st.active_device_id /= None)
        /\ h.active_device_id = st.active_device_id
        /\ h.authorized_count = Cardinality({d \in Devices : st.store[d] /= None})
        /\ h.pairing_code = st.code
        /\ expired_key \in DOMAIN h
        /\ h[expired_key] = (now - st.created_at > PAIRING_TTL)

\* C21: each connection sends exactly one hello, before any reply, and the hello's
\* paired, active_device_id, authorized_count and code_expired fields are the
\* PairingState's values at the instant the connection was accepted.
C21_HelloReportsAuthority ==
    [][\A c \in Conns :
         /\ outbound'[c].hellos <= 1
         /\ outbound'[c].first \in {"", "hello"}
         /\ Serving(c)' => outbound'[c] = HelloSent
         /\ (conn[c].pc = "closed" /\ conn'[c].pc = "hello") => HelloAgrees(c, "code_expired")
         /\ (conn[c].pc = "hello" /\ conn'[c].pc = "hello") => conn'[c].hello = conn[c].hello
      ]_vars

\* --------------------------------------------------------------------- C22
\* The allow-list a complete file holds (the empty one while there is no file).
OnFile(file) == IF file = None THEN EmptyStore ELSE from_str(Unwrap(file))

\* C22: a save is atomic with respect to a crash: whenever the process dies inside
\* a save, the file holds afterwards the complete previous content or the
\* complete new content, never a partial one, and the process that starts next
\* has one of these two allow-lists.
C22_SaveIsAtomic ==
    [][\A new \in PendingSaves(StoreClient), at \in SaveInstants :
          (~torn /\ CrashInSave(new, at))
             => /\ ~torn'
                /\ disk' \in {disk, Some(to_string_pretty(new))}
                /\ st'.store \in {OnFile(disk), new}
      ]_vars

\* --------------------------------------------------------------------- C23
\* The PairingState has no session and no rate-limit entry.
FreshRuntime(s) ==
    /\ s.active_device_id = None
    /\ s.active_client_ip = None
    /\ s.last_seen = None
    /\ \A ip \in IPs : s.rate_limit[ip] = None

\* C23: when every save so far has succeeded, a restart loads the allow-list the
\* process had in memory, device by device with name, hash, added_at and
\* last_seen, and the same holds for the allow-list of a save that was completed
\* just before the process died; the session and the rate-limit map start empty.
C23_RestartReloadsStore ==
    [][/\ (~torn /\ ~unsaved /\ Crash) => (st'.store = st.store /\ FreshRuntime(st'))
       /\ \A new \in PendingSaves(StoreClient) :
             CrashInSave(new, "after") => (st'.store = new /\ FreshRuntime(st'))
      ]_vars

\* A restarted process has loaded a device whose last_seen is later than its added_at.
C23_Witness ==
    /\ st.created_at > 0
    /\ ~torn
    /\ FreshRuntime(st)
    /\ IsSome(st.store["A"])
    /\ Unwrap(st.store["A"]).last_seen > Unwrap(st.store["A"]).added_at

\* --------------------------------------------------------------------- C24
\* The process dies, in a save or not, and is started again.
Restarts ==
    \/ Crash
    \/ \E new \in PendingSaves(StoreClient), at \in SaveInstants : CrashInSave(new, at)

\* A start that finds no file, or a file that does not parse, proceeds with the
\* empty allow-list.
LoadNeverFails ==
    (Restarts /\ (disk' = None \/ torn')) => (st'.store = EmptyStore /\ FreshRuntime(st'))

\* C24 as stated: a start with a missing or unparsable file gives the empty
\* allow-list, and while the allow-list is empty every auth attempt is answered
\* auth_error with reason invalid_token.
C24_EmptyStoreAnswersInvalidToken ==
    [][/\ LoadNeverFails
       /\ \A c \in Conns :
             (st.store = EmptyStore /\ Reads(c, "auth"))
                => conn'[c].reply = Reply("auth_error", "invalid_token")
      ]_vars

\* C24, amended: a start with a missing or unparsable file gives the empty
\* allow-list, and while the allow-list is empty no auth attempt succeeds: it is
\* answered auth_error no_remote_ip when the source has no address, rate_limited
\* while the source is locked out, and auth_error invalid_token otherwise.
C24_EmptyStoreRejectsAuth ==
    [][/\ LoadNeverFails
       /\ \A c \in Conns :
             (st.store = EmptyStore /\ Reads(c, "auth"))
                => /\ ~conn'[c].authenticated
                   /\ st'.active_device_id = st.active_device_id
                   /\ IF conn[c].remote_ip = None
                      THEN conn'[c].reply = Reply("auth_error", "no_remote_ip")
                      ELSE IF InLockout(Unwrap(conn[c].remote_ip), now)
                      THEN conn'[c].reply.type = "rate_limited"
                      ELSE conn'[c].reply = Reply("auth_error", "invalid_token")
      ]_vars

\* The file was left partial by a crash, the process that started next has the
\* empty allow-list and has just answered an auth attempt with invalid_token.
C24_Witness ==
    /\ torn
    /\ st.store = EmptyStore
    /\ \E c \in Conns : /\ conn[c].cmd = "auth"
                         /\ conn[c].reply = Reply("auth_error", "invalid_token")

\* --------------------------------------------------------------------- C25
\* C25: a save that fails neither aborts nor rolls back the operation.  A pairing
\* whose save fails is answered pairing_ok, the device is in the in-memory
\* allow-list with the hash of the token sent, and it holds the session; a
\* revocation whose save fails removes the device from the in-memory allow-list
\* and clears its session; a command whose heartbeat save fails is passed to the
\* executor with last_seen updated in memory; and every later auth is decided
\* by the in-memory allow-list, whatever the file holds.
C25_FailedSaveKeepsMutation ==
    [][/\ \A d \in Devices :
             Revoke(d, FALSE)
                => /\ st'.store[d] = None
                   /\ st.active_device_id = Some(d) => st'.active_device_id = None
       /\ \A c \in Conns, d \in Devices :
             (Reads(c, "pair") /\ ~InLockout("ip1", now) /\ HandlePair(c, st.code, d, FALSE))
                => /\ conn'[c].reply.type = "pairing_ok"
                   /\ conn'[c].authenticated
                   /\ st'.active_device_id = Some(d)
                   /\ st'.store[d] /= None
                   /\ Unwrap(st'.store[d]).token_hash
                         = sha256_hex(Unwrap(conn'[c].reply.token))
       /\ \A c \in Conns :
             (Reads(c, "command") /\ conn[c].authenticated /\ HandleCommand(c, FALSE))
                => /\ conn'[c].pc = "exec"
                   /\ st'.last_seen = Some(now)
                   /\ \A d \in Devices :
                         (st.active_device_id = Some(d) /\ st.store[d] /= None)
                            => Unwrap(st'.store[d]).last_seen = now
       /\ \A c \in Conns, d \in Devices, k \in Tokens, w \in BOOLEAN :
             (Reads(c, "auth") /\ ~InLockout("ip1", now) /\ HandleAuth(c, d, k, w))
                => ((conn'[c].reply.type = "auth_ok")
                      <=> (st.store[d] /= None
                           /\ Unwrap(st.store[d]).token_hash = sha256_hex(k)))
      ]_vars

\* No save has ever succeeded, and the device paired in memory has authenticated.
C25_Witness ==
    /\ unsaved
    /\ disk = None
    /\ \E c \in Conns : conn[c].reply.type = "auth_ok"

\* --------------------------------------------------------------------- C26
\* Connection c reads a pair or an auth message in this step.
Attempts(c) == Reads(c, "pair") \/ Reads(c, "auth")

\* C26: rate limiting is per source.  The entry of a source changes only in a step
\* in which a connection from that source handles a pair or an auth; and such an
\* attempt is answered rate_limited exactly when its own source is locked out,
\* whatever the entries of the other sources are.
C26_SourcesAreIsolated ==
    [][/\ \A ip \in IPs :
             st'.rate_limit[ip] /= st.rate_limit[ip]
                => \E c \in Conns : conn[c].remote_ip = Some(ip) /\ Attempts(c)
       /\ \A c \in Conns, ip \in IPs :
             (conn[c].remote_ip = Some(ip) /\ Attempts(c))
                => ((conn'[c].reply.type = "rate_limited") <=> InLockout(ip, now))
      ]_vars

\* One source is locked out while a client at the other source, which has failed
\* once before, has just paired.
C26_Witness ==
    /\ InLockout("ip1", now)
    /\ conn["c1"].remote_ip = Some("ip2")
    /\ conn["c1"].reply.type = "pairing_ok"
    /\ rl_spec["ip2"] /= None

\* --------------------------------------------------------------------- C27
\* The instant the lockout of source ip ends, in state s (0 when none is set).
LockedUntil(s, ip) ==
    IF s.rate_limit[ip] /= None /\ Unwrap(s.rate_limit[ip]).lockout_until /= None
    THEN Unwrap(Unwrap(s.rate_limit[ip]).lockout_until)
    ELSE 0

\* C27: a lockout is bounded.  A source that becomes locked at instant t is locked
\* until t + 30s exactly; while it is locked nothing changes its entry, its own
\* pair and auth attempts included, which are answered rate_limited with the
\* time that remains; and from t + 30s on its attempts are checked as allowed.
C27_LockoutIsBounded ==
    [][\A ip \in IPs :
         /\ (now >= LockedUntil(st, ip) /\ now' < LockedUntil(st', ip))
               => (now' = now /\ LockedUntil(st', ip) = now + RL_LOCKOUT)
         /\ now < LockedUntil(st, ip) => st'.rate_limit[ip] = st.rate_limit[ip]
         /\ \A c \in Conns :
               (conn[c].remote_ip = Some(ip) /\ Attempts(c))
                  => IF now < LockedUntil(st, ip)
                     THEN /\ conn'[c].reply.type = "rate_limited"
                          /\ conn'[c].reply.retry_after_secs = LockedUntil(st, ip) - now
                     ELSE conn'[c].reply.type /= "rate_limited"
      ]_vars

\* An attempt was answered rate_limited in the middle of a lockout.
C27_Witness ==
    /\ conn["c1"].reply.type = "rate_limited"
    /\ conn["c1"].reply.retry_after_secs = RL_LOCKOUT - FineStep
    /\ LockedUntil(st, "ip1") = now + RL_LOCKOUT - FineStep

\* --------------------------------------------------------------------- C28
CommandFailed == Reply("error", "command_failed")

\* C28: a command whose execution fails is answered error with reason
\* command_failed and ends nothing.  The heartbeat was recorded when the command
\* was read; the failure leaves the PairingState and the connection's
\* authentication as they were; once the reply is sent the connection is
\* receiving and still authenticated, unless another device has taken the session
\* in the meantime; and a command read on an authenticated connection is passed
\* to the executor.
C28_FailedCommandKeepsSession ==
    [][\A c \in Conns :
         /\ (Reads(c, "command") /\ conn[c].authenticated)
               => (conn'[c].pc = "exec" /\ st'.last_seen = Some(now))
         /\ ExecuteCommand(c, FALSE)
               => /\ conn'[c].reply = CommandFailed
                  /\ conn'[c].authenticated /\ conn'[c].authed_device_id = conn[c].authed_device_id
                  /\ st' = st /\ disk' = disk
         /\ (Replies(c) /\ conn[c].reply = CommandFailed /\ conn'[c].pc = "recv")
               => /\ \/ /\ conn'[c].authenticated
                        /\ conn'[c].authed_device_id = conn[c].authed_device_id
                     \/ /\ st.active_device_id /= None
                        /\ st.active_device_id /= conn[c].authed_device_id
                  /\ st' = st
      ]_vars

\* A command has failed on a connection that holds the session, at the instant
\* of its heartbeat.
C28_Witness ==
    \E c \in Conns :
        /\ conn[c].pc = "reval"
        /\ conn[c].reply = CommandFailed
        /\ conn[c].authenticated
        /\ st.active_device_id = conn[c].authed_device_id
        /\ st.last_seen = Some(now)

\* --------------------------------------------------------------------- C29
\* What C29 says of the watchdog up to the signal and of its stopping: the
\* watchdog stops only once the signal is given and never starts again; until
\* the signal its next check is due within one period, whatever the connections
\* do; and after the signal it is stopped within one period.
WatchdogLifetime ==
    /\ (wd_pc /= "stopped" /\ wd_pc' = "stopped") => cancelled
    /\ wd_pc = "stopped" => wd_pc' = "stopped"
    /\ ~cancelled' => (wd_pc' /= "stopped" /\ now' <= wd_wake' /\ wd_wake' <= now' + WATCHDOG_PERIOD)
    /\ (cancelled' /\ wd_pc' /= "stopped") => now' <= Unwrap(cancelled_at') + WATCHDOG_PERIOD

\* C29 as stated: the watchdog runs until the shutdown signal and stops within one
\* period of it, and after the signal it never clears a session.
C29_NoClearAfterSignal ==
    [][/\ WatchdogLifetime
       /\ (cancelled /\ WatchdogRun) => st' = st
      ]_vars

\* C29, amended: the watchdog runs until the shutdown signal and stops within one
\* period of it, at its next look at the cancellation token.  An iteration that
\* had passed that look when the signal came still runs its critical section, at
\* the instant of the signal, and may clear an idle session there; it is the last
\* one, and a stopped watchdog never clears a session.
C29_StopsAtNextCheck ==
    [][/\ WatchdogLifetime
       /\ (cancelled /\ WatchdogRun) => now = Unwrap(cancelled_at)
       /\ (cancelled /\ wd_pc = "sleep") => wd_pc' \in {"sleep", "stopped"}
       /\ (wd_pc = "stopped" /\ st'.active_device_id /= st.active_device_id)
             => \E c \in Conns : Reads(c, "pair") \/ Reads(c, "auth")
      ]_vars

\* The watchdog has stopped one period after the signal, and the session, idle
\* for longer than the idle timeout, is still there.
C29_Witness ==
    /\ cancelled
    /\ wd_pc = "stopped"
    /\ now = Unwrap(cancelled_at) + WATCHDOG_PERIOD
    /\ st.active_device_id /= None
    /\ now - Unwrap(st.last_seen) > PAIRING_IDLE_TIMEOUT

\* --------------------------------------------------------------------- C30
\* C30: a command handled on a connection authenticated as device X sets the
\* session's last_seen and the last_seen of X in the allow-list, in memory and on
\* file, to the present instant, and changes the allow-list entry of no other
\* device.
C30_CommandTouchesIssuingDevice ==
    [][\A c \in Conns, x \in Devices :
          (Reads(c, "command") /\ conn[c].authenticated /\ conn[c].authed_device_id = Some(x))
             => /\ st'.last_seen = Some(now)
                /\ st.store[x] /= None
                      => /\ Unwrap(st'.store[x]).last_seen = now
                         /\ disk' = Some(to_string_pretty(st'.store))
                /\ \A d \in Devices \ {x} : st'.store[d] = st.store[d]
      ]_vars

\* --------------------------------------------------------------------- C31
\* C31: a revocation reaches the live connections.  Device X is out of the
\* allow-list from its revocation until it pairs again; during that time no
\* connection authenticated as X has a command in execution, and X does not hold
\* the session.
C31_RevokedDeviceRunsNothing ==
    \A x \in Devices :
        st.store[x] = None
            => /\ st.active_device_id /= Some(x)
               /\ \A c \in Conns :
                     ~(conn[c].pc = "exec" /\ conn[c].authed_device_id = Some(x))

\* --------------------------------------------------------------------- C32
\* C32: no pairing succeeds against an expired code: whenever a pair is answered
\* pairing_ok, the code in force, which it matched, was issued at most 300s
\* earlier, whether or not a session was active.
C32_NoPairingOnExpiredCode ==
    [][\A c \in Conns :
          (Reads(c, "pair") /\ conn'[c].reply.type = "pairing_ok")
             => now - st'.created_at <= PAIRING_TTL
      ]_vars

\* --------------------------------------------------------------------- C33
\* The fields of a hello that describe the session and the allow-list.
StatusFields ==
    {"type", "paired", "active_device_id", "authorized_count", "pairing_code_expired"}

\* C33: the server never tells a client the pairing code: no hello, built or
\* about to be sent, carries the value of the code in force in any field other
\* than its status fields.
C33_HelloWithholdsCode ==
    \A c \in Conns :
        conn[c].hello /= None
            => \A f \in DOMAIN Unwrap(conn[c].hello) \ StatusFields :
                  Unwrap(conn[c].hello)[f] /= st.code

\* --------------------------------------------------------------------- C34
\* Two connections from one address, both presenting a wrong token and a wrong
\* code for the same device id; the clock steps over a whole window.
RacingClients ==
    [conns |-> {"c1", "c2"}, remotes |-> {Some("ip1")},
     who |-> {<< "c1", "A" >>, << "c2", "A" >>},
     tokens |-> {"wrong"}, codes |-> {"wrong"}, writes |-> {TRUE}]

InitCompare == InitFrom({0}, TRUE, FALSE)

NextCompare ==
    \/ \E c \in RacingClients.conns, remote \in RacingClients.remotes : Connect(c, remote)
    \/ \E cd \in RacingClients.who : HandleAuth(cd[1], cd[2], 0, TRUE)
    \/ \E cd \in RacingClients.who : HandlePair(cd[1], PresentedCode("wrong"), cd[2], TRUE)
    \/ \E c \in RacingClients.conns, sent \in BOOLEAN : Revalidate(c, sent)
    \/ Tick(SlowStep, SlowHorizon)

SpecCompare == InitCompare /\ [][NextCompare]_vars

\* Connection c, from source ip, performs a comparison that fails in this step.
FailsComparison(c, ip) ==
    /\ conn[c].remote_ip = Some(ip)
    /\ Attempts(c)
    /\ conn'[c].reply.reason \in {"invalid_token", "invalid_code"}

\* C34 as stated: under any interleaving of the connections of one source, at
\* most 5 failed comparisons are performed for it between two of its lockouts.
C34_FiveComparisonsBetweenLockouts ==
    \A ip \in IPs :
        compared[ip].phase = "locked" => compared[ip].n <= RL_MAX_ATTEMPTS

\* C34: the gate and the record of one pair/auth attempt are one critical
\* section.  A failed comparison is performed for a source only in a step that
\* finds the source not locked, and that same step records the failure: the
\* count of the source's entry is at least 1 afterwards, and if it is 5 or more
\* the source is locked from that step on, so no other connection of the source
\* compares between the check and the record.
C34_GateAndRecordAreOneSection ==
    [][\A c \in Conns, ip \in IPs :
          FailsComparison(c, ip)
             => /\ now >= LockedUntil(st, ip)
                /\ st'.rate_limit[ip] /= None
                /\ Unwrap(st'.rate_limit[ip]).attempts >= 1
                /\ Unwrap(st'.rate_limit[ip]).attempts >= RL_MAX_ATTEMPTS
                      => LockedUntil(st', ip) = now + RL_LOCKOUT
      ]_vars

\* The two connections raced: one performed the failed comparison that locked
\* their source, and the other was then answered rate_limited.
C34_Witness ==
    /\ conn["c1"].reply.reason \in {"invalid_token", "invalid_code"}
    /\ conn["c2"].reply.type = "rate_limited"
    /\ compared["ip1"].phase = "locked"
    /\ now < LockedUntil(st, "ip1")

OwnsSession(c) ==
    /\ conn[c].authenticated
    /\ IsSome(st.active_device_id)
    /\ conn[c].authed_device_id = st.active_device_id

\* The watchdog clears the active session in this step.
WatchdogClears ==
    /\ wd_wake' /= wd_wake
    /\ IsSome(st.active_device_id)
    /\ IsNone(st'.active_device_id)

\* C36: heartbeats keep a session alive.  A command read on the connection that
\* owns the active session sets the session's last_seen to the present instant
\* and leaves the session in place; and the watchdog clears a session only when
\* its last_seen is more than 10s old.  So while the owner commands at least
\* once every 10s, and nothing else moves the session, no watchdog run clears it.
C36_HeartbeatsKeepSession ==
    [][/\ \A c \in Conns :
             (OwnsSession(c) /\ Reads(c, "command"))
                => /\ st'.last_seen = Some(now)
                   /\ st'.active_device_id = st.active_device_id
                   /\ st'.active_client_ip = st.active_client_ip
       /\ WatchdogClears => now - Unwrap(st.last_seen) > PAIRING_IDLE_TIMEOUT
       /\ (wd_wake' /= wd_wake /\ IsSome(st.active_device_id) /\ IsSome(st.last_seen)
              /\ now - Unwrap(st.last_seen) <= PAIRING_IDLE_TIMEOUT)
             => st' = st
      ]_vars

\* The watchdog has just run, 15s or more after the start, over a session whose
\* owner sent its latest heartbeat 10s before, and has left the session in place.
C36_Witness ==
    /\ now - started_at >= WATCHDOG_PERIOD + PAIRING_IDLE_TIMEOUT
    /\ wd_wake = now + WATCHDOG_PERIOD
    /\ OwnsSession("c1")
    /\ st.last_seen = Some(now - PAIRING_IDLE_TIMEOUT)
    /\ Unwrap(st.store["A"]).added_at = now_unix(started_at)

\* --------------------------------------------------------------------- C37
\* The active session is the same before and after the step.
SessionUnchanged ==
    /\ st'.active_device_id = st.active_device_id
    /\ st'.active_client_ip = st.active_client_ip
    /\ st'.last_seen = st.last_seen

C38_SessionNamesAuthorizedDevice ==
    IsSome(st.active_device_id)
        => /\ IsSome(st.store[Unwrap(st.active_device_id)])
           /\ IsSome(st.active_client_ip)

\* Two tokens have been issued, device B is not listed, and device A, listed,
\* holds the session from the client's address after the clock has moved.
C38_Witness ==
    /\ issued >= 2
    /\ IsNone(st.store["B"])
    /\ st.active_device_id = Some("A")
    /\ IsSome(st.store["A"])
    /\ st.active_client_ip = Some("ip1")
    /\ now > started_at

\* --------------------------------------------------------------------- C39
\* Everything but the lock.
data == << now, started_at, wd_wake, st, disk, conn, issued, rl_spec, token_out, lost,
           cancelled, closing, outbound, torn, unsaved, wd_pc, cancelled_at, compared >>

\* The tasks of the specification with the lock: one connection, the watchdog and
\* the host's window.
LockingTasks == {"c1", "watchdog", "gui"}

\* One client that pairs and presents the tokens it was issued, valid or not any
\* more: whatever the state, an auth message can arrive.
LockingClient ==
    [conns |-> {"c1"}, remotes |-> {Some("ip1")}, who |-> {<< "c1", "A" >>},
     tokens |-> {"current", "stale"}, codes |-> {"shown"}, writes |-> {TRUE}]

\* Task k is at a call of pairing.lock(): a connection task before its hello, with
\* a message to handle, or before the check that follows a message on an
\* authenticated connection; the watchdog when its sleep has ended; the host's
\* window when the operator revokes a listed device.
AtLockSite(k) ==
    IF k \in Conns
    THEN \/ ~cancelled /\ conn[k].pc = "closed"
         \/ conn[k].pc = "recv"
         \/ conn[k].pc = "reval" /\ conn[k].authenticated
    ELSE IF k = "watchdog"
    THEN ~cancelled /\ wd_pc = "sleep" /\ now >= wd_wake
    ELSE \E d \in Devices : IsSome(st.store[d])

\* Task k calls pairing.lock() and blocks until the lock is handed to it.
RequestLock(k) ==
    /\ lock.holder /= "off"
    /\ Outside(k)
    /\ AtLockSite(k)
    /\ lock' = [lock EXCEPT !.waiting = @ \cup {k}]
    /\ UNCHANGED data

\* The free lock is handed to one of the tasks blocked in lock().
Acquire(k) ==
    /\ lock.holder = "free"
    /\ k \in lock.waiting
    /\ lock' = [holder |-> k, waiting |-> lock.waiting \ {k}]
    /\ UNCHANGED data

InitLocking == InitFrom({0}, FALSE, TRUE)

\* One client, the watchdog and the operator, each taking the lock in a step of
\* its own before its critical section.  The clock stands still: no lock site
\* depends on it but the end of the watchdog's sleep.
NextLocking ==
    \/ \E k \in LockingTasks : RequestLock(k)
    \/ \E k \in LockingTasks : Acquire(k)
    \/ Steps(LockingClient)
    \/ Operator

\* The task that holds the lock runs its critical section to the end.
HolderStep(k) == lock.holder = k /\ NextLocking /\ lock'.holder /= k

\* A connection task that has handled a message goes on to execute the command
\* and to send the reply.
TaskStep(c) ==
    /\ conn[c].pc \in {"exec", "reval"}
    /\ \/ \E ok \in BOOLEAN : ExecuteCommand(c, ok)
       \/ RequestLock(c)
       \/ \E sent \in BOOLEAN : Revalidate(c, sent)

\* Fair scheduling: a running task takes its next step, and a task blocked in
\* lock() is not passed over for ever.
FairLocking ==
    /\ \A k \in LockingTasks : SF_vars(Acquire(k)) /\ WF_vars(HolderStep(k))
    /\ WF_vars(TaskStep("c1"))
    /\ WF_vars(RequestLock("watchdog"))

SpecLocking == InitLocking /\ [][NextLocking]_vars /\ FairLocking

\* Connection c has received a message and has not yet sent its reply.
Handling(c) ==
    \/ conn[c].pc = "recv" /\ (c \in lock.waiting \/ lock.holder = c)
    \/ conn[c].pc \in {"exec", "reval"}

\* C39: the single lock never causes a deadlock.  Under fair scheduling every
\* task blocked in lock() eventually holds the lock, every holder eventually
\* releases it, and every message a connection has received is eventually
\* answered: the connection is back at its receive, or closed because the send
\* failed, outside any critical section.
C39_LockNeverDeadlocks ==
    /\ \A k \in LockingTasks : (k \in lock.waiting) ~> (lock.holder = k)
    /\ \A k \in LockingTasks : (lock.holder = k) ~> (lock.holder /= k)
    /\ Handling("c1") ~> (conn["c1"].pc \in {"recv", "closed"} /\ Outside("c1"))

\* The watchdog holds the lock while the connection task, about to send a reply,
\* and the host's window are blocked in lock().
C39_Witness ==
    /\ lock.holder = "watchdog"
    /\ lock.waiting = {"c1", "gui"}
    /\ conn["c1"].pc = "reval"

\* --------------------------------------------------------------------- C40
\* C40: a pair or an auth read on a connection whose remote address is unknown
\* is answered, on that connection, with the arm's error and reason
\* no_remote_ip.  Nothing is compared or recorded: the PairingState, the
\* rate-limit entries, the allow-list file and the count of issued tokens are as
\* before, and the connection is unauthenticated; and when the reply has been
\* sent the connection is receiving again, still unauthenticated.
C40_NoRemoteIpIsRefused ==
    [][\A c \in Conns :
          /\ (IsNone(conn[c].remote_ip) /\ Attempts(c))
                => /\ conn'[c].reply =
                         Reply(IF conn'[c].cmd = "auth" THEN "auth_error" ELSE "pairing_error",
                               "no_remote_ip")
                   /\ conn'[c].pc = "reval"
                   /\ ~conn'[c].authenticated
                   /\ conn'[c].authed_device_id = None
                   /\ st' = st
                   /\ disk' = disk
                   /\ issued' = issued
                   /\ rl_spec' = rl_spec
          /\ (Replies(c) /\ conn[c].reply.reason = "no_remote_ip" /\ conn'[c].pc /= "closed")
                => /\ conn'[c].pc = "recv"
                   /\ ~conn'[c].authenticated
      ]_vars

\* Device A is listed, and an auth on a connection whose remote address is
\* unknown has been answered no_remote_ip.
C40_Witness ==
    /\ IsNone(conn["c1"].remote_ip)
    /\ conn["c1"].pc = "reval"
    /\ conn["c1"].reply = Reply("auth_error", "no_remote_ip")
    /\ IsSome(st.store["A"])
    /\ IsNone(st.active_device_id)


====
